---- MODULE Spec2Model ----
(***************************************************************************)
(* Model of the eikosi collection graph engine (src/build/lib/eikosi.py):  *)
(* CollectionIterator, ProtoCollection and MasterCollection.               *)
(*                                                                         *)
(* A collection object is a node id; 0 stands for None.  The _children and *)
(* _entries dicts are insertion ordered, so each is a sequence of values   *)
(* whose keys are the values' names.  An operation is a function from the  *)
(* object graph to the object graph, with field exc naming the exception   *)
(* it raised ("" when it returned normally).                               *)
(***************************************************************************)
EXTENDS Integers, Sequences, FiniteSets, TLC

\* ---------------------------------------------------------------- bounds
\* Number of collection objects that can exist (constructed or copied).
MaxNodes == 6
\* Number of operations in one behaviour of Spec.
MaxSteps == 3
\* Number of operations in one behaviour of SpecBuild.
BuildSteps == 4
\* Number of nodes linked into the graphs SpecIter iterates over.
IterNodes == 6
\* Number of operations in one behaviour of SpecSort.
SortSteps == 4
\* Number of entries in the collections SpecSortList sorts.
MaxSortLen == 3

\* Number of authors in the lists SpecOrder compares.
MaxAuthors == 2

\* Number of entries in the collections SpecDup searches for duplicates.
MaxDupLen == 4

Node == 1 .. MaxNodes

\* The objects that exist after construction in Spec: two MasterCollections,
\* one Collection, one SubCollection; the other ids are not yet constructed
\* (merge() constructs Collection/SubCollection copies).
MasterIds == {1, 2}
CollectionIds == {3}
SubCollectionIds == {4}

None == 0

\* Entry objects and their names: entries 1 and 2 are different objects with
\* the same name, entry 3 is named like collection 3.
Entry == {1, 2, 3}
EntryName == <<"x", "x", "a", "b", "c", "d">>

\* All Entry objects; those beyond Entry are used where entries are sorted.
AllEntry == 1 .. Len(EntryName)
\* The value of the item "year" of each entry, 0 (None) for an entry without
\* the item.
EntryYear == <<2, 1, 1, None, None, 2>>

\* A text is a sequence of characters, each a string of length one.  The
\* letters, in increasing order: LowerChar[i] is the lower case of
\* UpperChar[i].
LowerChar ==
  <<"a", "b", "c", "d", "e", "f", "g", "h", "i", "j", "k", "l", "m",
    "n", "o", "p", "q", "r", "s", "t", "u", "v", "w", "x", "y", "z">>
UpperChar ==
  <<"A", "B", "C", "D", "E", "F", "G", "H", "I", "J", "K", "L", "M",
    "N", "O", "P", "Q", "R", "S", "T", "U", "V", "W", "X", "Y", "Z">>
\* The entries that have the item "author", and the last name of the first
\* author of each of them (the empty text where there is no author).
HasAuthor == {1, 3, 5}
EntryAuthor == <<<<"A", "b">>, <<>>, <<"a">>, <<>>, <<"b">>, <<>>>>
\* The entries that have the item "title", and the title of each of them.
HasTitle == {1, 2, 3, 4, 6}
EntryTitle ==
  <<<<"c">>, <<"a", " ", "b", " ", "c">>, <<"B", "!", "C">>, <<"A", "B", "C">>,
    <<>>, <<" ", "b", " ">>>>
\* Entry.__lt__ compares the names: the names in increasing order.
NameOrder == <<"a", "b", "c", "d", "x">>

\* MasterCollection.__init__: ProtoCollection.__init__(self, 'main')
InitName == [n \in Node |->
               IF n \in MasterIds THEN "main"
               ELSE IF n = 3 THEN "a"
               ELSE IF n = 4 THEN "b"
               ELSE ""]

\* Names handed to merge(mc, name).
MergeNames == {"a", "m"}

\* sys.getrecursionlimit(): Python raises RecursionError when the call stack
\* grows beyond it.  Any acyclic chain of the model is shorter than this, and
\* a walk that is this deep has set every marker the endless walk sets.
RecursionLimit == MaxNodes + 1

\* sorted[n] is the _sorted dict of collection n for the item "year": <<>>
\* when the dict has no such key, <<list>> when it stores list.
\* loadbib holds the local variables of a call of loadbib.
\* compared holds two author lists and the results of their comparisons.
VARIABLES kind, name, children, entries, master, iflag, sorted, last, steps,
          loadbib, authorlist, thisentry, compared

vars == <<kind, name, children, entries, master, iflag, sorted, last, steps,
         loadbib, authorlist, thisentry, compared>>

\* The object graph as one value.
Graph == [kind |-> kind, name |-> name, children |-> children,
          entries |-> entries, master |-> master, iflag |-> iflag,
          sorted |-> sorted, exc |-> ""]

Range(s) == {s[i] : i \in 1 .. Len(s)}

Raise(g, e) == [g EXCEPT !.exc = e]

\* v is computed once and handed to the rest of the method
With(v, rest(_)) == rest(v)

\* the rest of a method runs unless the graph records a raised exception
Try(g, rest(_)) == IF g.exc # "" THEN g ELSE rest(g)

\* the same for a result [value, g] of a call; the method returns a graph
TryCall(r, rest(_)) == IF r.g.exc # "" THEN r.g ELSE rest(r)

\* ------------------------------------------------------ CollectionIterator
\* The walk state: the schedule, the count of markers set, the markers, and
\* err, set when the recursion outgrew the Python stack.

RECURSIVE depth_last_mark_all(_, _, _)
\* variant of the first loop of _depth_last without the "if not child._iflag"
\* test: every child is marked, counted and scheduled again
depth_last_mark_all(kids, i, st) ==
  IF i > Len(kids) THEN st
  ELSE depth_last_mark_all(kids, i + 1,
         [st EXCEPT !.iflag[kids[i]] = TRUE,
                    !.count = @ + 1,
                    !.schedule = Append(@, kids[i])])

RECURSIVE depth_last_mark(_, _, _)
\* first loop of _depth_last: mark and schedule the unmarked children
depth_last_mark(kids, i, st) ==
  IF i > Len(kids) THEN st
  ELSE depth_last_mark(kids, i + 1,
         IF ~st.iflag[kids[i]]
         THEN [st EXCEPT !.iflag[kids[i]] = TRUE,
                         !.count = @ + 1,
                         !.schedule = Append(@, kids[i])]
         ELSE st)

RECURSIVE depth_last(_, _, _, _)
RECURSIVE depth_last_recurse(_, _, _, _, _)
\* _depth_last(target, count), called at stack depth d
depth_last(ch, target, st, d) ==
  IF st.err THEN st
  ELSE IF d > RecursionLimit THEN [st EXCEPT !.err = TRUE]
  ELSE depth_last_recurse(ch, ch[target], 1,
                          depth_last_mark(ch[target], 1, st), d)

\* second loop of _depth_last: recurse into every child, marked or not
depth_last_recurse(ch, kids, i, st, d) ==
  IF i > Len(kids) \/ st.err THEN st
  ELSE depth_last_recurse(ch, kids, i + 1,
                          depth_last(ch, kids[i], st, d + 1), d)

RECURSIVE depth_first(_, _, _)
RECURSIVE depth_first_recurse(_, _, _, _)
\* variant of _depth_first that schedules the target before its children
depth_first_pre(ch, target, st) ==
  IF ~st.iflag[target]
  THEN LET s1 == [st EXCEPT !.iflag[target] = TRUE, !.count = @ + 1,
                            !.schedule = Append(@, target)]
       IN depth_first_recurse(ch, ch[target], 1, s1)
  ELSE st

\* _depth_first(target, count)
depth_first(ch, target, st) ==
  IF ~st.iflag[target]
  THEN LET s1 == [st EXCEPT !.iflag[target] = TRUE, !.count = @ + 1]
           s2 == depth_first_recurse(ch, ch[target], 1, s1)
       IN [s2 EXCEPT !.schedule = Append(@, target)]
  ELSE st

depth_first_recurse(ch, kids, i, st) ==
  IF i > Len(kids) THEN st
  ELSE depth_first_recurse(ch, kids, i + 1, depth_first(ch, kids[i], st))

RECURSIVE set_iflag(_, _, _, _)
RECURSIVE set_iflag_recurse(_, _, _, _, _)
\* ProtoCollection._set_iflag(value): [iflag, count]
set_iflag(ch, st, node, value) ==
  IF st.iflag[node] # value
  THEN set_iflag_recurse(ch, ch[node], 1,
         [st EXCEPT !.iflag[node] = value, !.count = @ + 1], value)
  ELSE st

set_iflag_recurse(ch, kids, i, st, value) ==
  IF i > Len(kids) THEN st
  ELSE set_iflag_recurse(ch, kids, i + 1, set_iflag(ch, st, kids[i], value), value)

\* the end of CollectionIterator.__init__ after a walk that returned:
\* target._set_iflag(False) and the comparison of the two counts
CollectionIterator_clear(ch, target, walk, schedule) ==
  With(set_iflag(ch, [iflag |-> walk.iflag, count |-> 0], target, FALSE),
       LAMBDA cl : [schedule |-> schedule, iflag |-> cl.iflag,
                    exc |-> IF walk.count # cl.count THEN "Exception" ELSE ""])

\* CollectionIterator.__init__(target, depthfirst, inclusive, deep):
\* [schedule, iflag, exc]
CollectionIterator(ch, fl, target, depthfirst, inclusive, deep) ==
  IF ~deep
  THEN IF ~inclusive
       THEN [schedule |-> <<>>, iflag |-> fl, exc |-> "Exception"]
       ELSE [schedule |-> ch[target], iflag |-> fl, exc |-> ""]
  ELSE IF depthfirst
  THEN With(depth_first(ch, target,
                        [schedule |-> <<>>, count |-> 0, iflag |-> fl, err |-> FALSE]),
            LAMBDA df :
              IF inclusive THEN CollectionIterator_clear(ch, target, df, df.schedule)
              \* del self.schedule[-1] raises IndexError on an empty schedule
              ELSE IF df.schedule = <<>>
              THEN [schedule |-> <<>>, iflag |-> df.iflag, exc |-> "IndexError"]
              ELSE CollectionIterator_clear(ch, target, df,
                     SubSeq(df.schedule, 1, Len(df.schedule) - 1)))
  ELSE With(depth_last(ch, target,
                       [schedule |-> IF inclusive THEN <<target>> ELSE <<>>,
                        count |-> 1, iflag |-> [fl EXCEPT ![target] = TRUE],
                        err |-> FALSE], 1),
            LAMBDA dl :
              IF dl.err
              THEN [schedule |-> dl.schedule, iflag |-> dl.iflag, exc |-> "RecursionError"]
              ELSE CollectionIterator_clear(ch, target, dl, dl.schedule))

\* ProtoCollection.collections(depthfirst, rself) on graph g
collections(g, self, depthfirst, rself) ==
  CollectionIterator(g.children, g.iflag, self, depthfirst, rself, TRUE)

\* ------------------------------------------------------------ dict helpers
\* d.get(key) on the _entries dict of a node; None when absent
EntriesGet(es, key) ==
  IF \E i \in 1 .. Len(es) : EntryName[es[i]] = key
  THEN es[CHOOSE i \in 1 .. Len(es) : EntryName[es[i]] = key]
  ELSE None

\* d[entry.name] = entry: an existing key keeps its position
EntriesSet(es, e) ==
  IF \E i \in 1 .. Len(es) : EntryName[es[i]] = EntryName[e]
  THEN [i \in 1 .. Len(es) |-> IF EntryName[es[i]] = EntryName[e] THEN e ELSE es[i]]
  ELSE Append(es, e)

\* del d[key]
EntriesDel(es, key) == SelectSeq(es, LAMBDA e : EntryName[e] # key)

\* the _children dict of a node, keyed by the child's name
ChildrenGet(g, cs, key) ==
  IF \E i \in 1 .. Len(cs) : g.name[cs[i]] = key
  THEN cs[CHOOSE i \in 1 .. Len(cs) : g.name[cs[i]] = key]
  ELSE None

ChildrenSet(g, cs, key, c) ==
  IF \E i \in 1 .. Len(cs) : g.name[cs[i]] = key
  THEN [i \in 1 .. Len(cs) |-> IF g.name[cs[i]] = key THEN c ELSE cs[i]]
  ELSE Append(cs, c)

ChildrenDel(g, cs, key) == SelectSeq(cs, LAMBDA c : g.name[c] # key)

\* bool(obj): MasterCollection defines __len__, so a MasterCollection without
\* entries is falsy; None is falsy; every other collection is truthy.
Truthy(g, obj) ==
  /\ obj # None
  /\ (g.kind[obj] = "Master" => Len(g.entries[obj]) > 0)

\* with the markers and the exception of a finished CollectionIterator
AfterIter(g, it) == [g EXCEPT !.iflag = it.iflag, !.exc = it.exc]

\* "self.master if self.master else self"
MasterOrSelf(g, self) == IF Truthy(g, g.master[self]) THEN g.master[self] ELSE self

RECURSIVE FirstEntry(_, _, _, _)
\* loop of ProtoCollection.get: the first scheduled node holding the name
FirstEntry(g, schedule, i, entryname) ==
  IF i > Len(schedule) THEN None
  ELSE LET value == EntriesGet(g.entries[schedule[i]], entryname)
       IN IF value # None THEN value
          ELSE FirstEntry(g, schedule, i + 1, entryname)

\* get(entryname, deep=True): [value, g]; MasterCollection.get is the flat
\* lookup, ProtoCollection.get walks the shallow-first schedule
get(g, self, entryname) ==
  IF g.kind[self] = "Master"
  THEN [value |-> EntriesGet(g.entries[self], entryname), g |-> g]
  ELSE With(collections(g, self, FALSE, TRUE),
            LAMBDA it : [value |-> IF it.exc # "" THEN None
                                   ELSE FirstEntry(g, it.schedule, 1, entryname),
                         g |-> AfterIter(g, it)])

\* MasterCollection.has(entryname) with a string argument
MasterCollection_has(g, self, entryname) ==
  EntriesGet(g.entries[self], entryname) # None

\* ProtoCollection.getchild(cname): [value, g]
getchild(g, self, cname) ==
  With(collections(g, self, FALSE, TRUE),
       LAMBDA it :
         LET hit == {i \in 1 .. Len(it.schedule) : g.name[it.schedule[i]] = cname}
         IN [value |-> IF it.exc # "" \/ hit = {} THEN None
                       ELSE it.schedule[CHOOSE i \in hit : \A j \in hit : i <= j],
             g |-> AfterIter(g, it)])

RECURSIVE IterEntries(_, _, _)
\* ProtoCollection.__iter__: the entries of every scheduled node, in order
IterEntries(g, schedule, i) ==
  IF i > Len(schedule) THEN <<>>
  ELSE g.entries[schedule[i]] \o IterEntries(g, schedule, i + 1)

\* list(self): [value, g]; MasterCollection.__iter__ is the flat map
iter(g, self) ==
  IF g.kind[self] = "Master"
  THEN [value |-> g.entries[self], g |-> g]
  ELSE With(collections(g, self, FALSE, TRUE),
            LAMBDA it : [value |-> IF it.exc # "" THEN <<>>
                                   ELSE IterEntries(g, it.schedule, 1),
                         g |-> AfterIter(g, it)])

\* the trailing "for c in root.collections(): c._sorted = {}"
ResetSorted(g, root) ==
  With(collections(g, root, FALSE, TRUE), LAMBDA it :
    IF it.exc # "" THEN AfterIter(g, it)
    ELSE [AfterIter(g, it) EXCEPT
            !.sorted = [n \in Node |-> IF n \in Range(it.schedule) THEN <<>> ELSE @[n]]])

\* ----------------------------------------------------------------- add
\* MasterCollection.add(newentry)
MasterCollection_add(g, self, newentry) ==
  LET test == EntriesGet(g.entries[self], EntryName[newentry])
  IN IF test = None
     THEN [g EXCEPT !.entries[self] = EntriesSet(@, newentry), !.sorted[self] = <<>>]
     ELSE IF test # newentry THEN Raise(g, "Exception")
     ELSE g

\* ProtoCollection.add(newentry)
ProtoCollection_add(g, self, newentry) ==
  Try(IF g.master[self] = None
      THEN TryCall(get(g, self, EntryName[newentry]),
                   LAMBDA t : IF t.value # None /\ t.value # newentry
                              THEN Raise(t.g, "Exception")
                              ELSE t.g)
      ELSE MasterCollection_add(g, g.master[self], newentry),
      LAMBDA g1 :
        With([g1 EXCEPT !.entries[self] = EntriesSet(@, newentry)],
             LAMBDA g2 : ResetSorted(g2, MasterOrSelf(g2, self))))

add(g, self, newentry) ==
  IF g.kind[self] = "Master" THEN MasterCollection_add(g, self, newentry)
  ELSE ProtoCollection_add(g, self, newentry)

\* ------------------------------------------------------------- addchild
RECURSIVE addchild_collections(_, _, _, _, _)
\* ProtoCollection.addchild, the loop "for c in cnew.collections()" that
\* checks the collection names against check
addchild_collections(g, self, check, schedule, i) ==
  IF i > Len(schedule) \/ g.exc # "" THEN g
  ELSE TryCall(getchild(g, check, g.name[schedule[i]]),
               LAMBDA r :
                 LET c == schedule[i]
                     old == r.value
                 IN IF old # None /\ old # c THEN Raise(r.g, "Exception")
                    ELSE IF old # None
                            /\ ~(g.master[old] = None \/ g.master[old] = g.master[self])
                         THEN Raise(r.g, "Exception")
                    ELSE addchild_collections(r.g, self, check, schedule, i + 1))

RECURSIVE addchild_entries(_, _, _, _)
\* ProtoCollection.addchild, the loop "for entry in cnew" that checks the
\* entries against check
addchild_entries(g, check, es, i) ==
  IF i > Len(es) \/ g.exc # "" THEN g
  ELSE TryCall(get(g, check, EntryName[es[i]]),
               LAMBDA r :
                 IF ~(r.value = None \/ r.value = es[i]) THEN Raise(r.g, "Exception")
                 ELSE addchild_entries(r.g, check, es, i + 1))

RECURSIVE SetMasters(_, _, _, _)
\* "for c in cnew.collections(): c.master = m"
SetMasters(g, schedule, i, m) ==
  IF i > Len(schedule) THEN g
  ELSE SetMasters([g EXCEPT !.master[schedule[i]] = m], schedule, i + 1, m)

RECURSIVE AddAll(_, _, _, _)
\* "for entry in cnew: c.master.add(entry)"
AddAll(g, m, es, i) ==
  IF i > Len(es) \/ g.exc # "" THEN g
  ELSE AddAll(MasterCollection_add(g, m, es[i]), m, es, i + 1)

\* ProtoCollection.addchild, the block under "if self.master:"
addchild_master(g, self, cnew) ==
  With(collections(g, cnew, FALSE, TRUE), LAMBDA it :
  Try(AfterIter(g, it), LAMBDA ga :
  With(SetMasters(ga, it.schedule, 1, g.master[self]), LAMBDA g4 :
  TryCall(iter(g4, cnew), LAMBDA es :
  AddAll(es.g, g4.master[self], es.value, 1)))))

\* ProtoCollection.addchild(cnew)
ProtoCollection_addchild(g, self, cnew) ==
  IF g.kind[cnew] \notin {"Collection", "SubCollection"} THEN Raise(g, "TypeError")
  ELSE IF g.master[cnew] # None /\ g.master[self] = None THEN Raise(g, "Exception")
  ELSE IF g.master[cnew] # None /\ g.master[self] # g.master[cnew]
       THEN Raise(g, "Exception")
  ELSE
  With(collections(g, cnew, FALSE, TRUE), LAMBDA it :
  Try(AfterIter(g, it), LAMBDA ga :
  Try(addchild_collections(ga, self, MasterOrSelf(g, self), it.schedule, 1), LAMBDA g1 :
  TryCall(iter(g1, cnew), LAMBDA es :
  Try(addchild_entries(es.g, MasterOrSelf(g, self), es.value, 1), LAMBDA g2 :
  \* the addition is safe; go ahead and add it
  With([g2 EXCEPT !.children[self] = ChildrenSet(g2, @, g2.name[cnew], cnew)], LAMBDA g3 :
  Try(IF Truthy(g3, g3.master[self]) THEN addchild_master(g3, self, cnew) ELSE g3,
      LAMBDA g6 : ResetSorted(g6, MasterOrSelf(g6, self)))))))))

RECURSIVE Master_addchild_collections(_, _, _, _)
\* MasterCollection.addchild, the loop "for c in cnew.collections()"
Master_addchild_collections(g, self, schedule, i) ==
  IF i > Len(schedule) \/ g.exc # "" THEN g
  ELSE IF ~(g.master[schedule[i]] = None \/ g.master[schedule[i]] = self)
       THEN Raise(g, "Exception")
  ELSE TryCall(getchild(g, self, g.name[schedule[i]]),
               LAMBDA r :
                 IF ~(r.value = None \/ r.value = schedule[i])
                 THEN Raise(r.g, "Exception")
                 ELSE Master_addchild_collections(r.g, self, schedule, i + 1))

RECURSIVE Master_addchild_check(_, _, _, _)
\* MasterCollection.addchild, the first loop "for newentry in cnew"
Master_addchild_check(g, self, es, i) ==
  IF i > Len(es) THEN g
  ELSE LET oldentry == EntriesGet(g.entries[self], EntryName[es[i]])
       IN IF oldentry # None /\ oldentry # es[i] THEN Raise(g, "Exception")
          ELSE Master_addchild_check(g, self, es, i + 1)

RECURSIVE Master_addchild_read(_, _, _, _)
\* MasterCollection.addchild, the second loop "for newentry in cnew"
Master_addchild_read(g, self, es, i) ==
  IF i > Len(es) THEN g
  ELSE LET oldentry == EntriesGet(g.entries[self], EntryName[es[i]])
       IN IF oldentry # None /\ oldentry # es[i] THEN Raise(g, "Exception")
          ELSE Master_addchild_read(
                 [g EXCEPT !.entries[self] = EntriesSet(@, es[i])], self, es, i + 1)

\* MasterCollection.addchild(cnew)
MasterCollection_addchild(g, self, cnew) ==
  IF g.kind[cnew] # "Collection" THEN Raise(g, "Exception")
  ELSE
  With(collections(g, cnew, FALSE, TRUE), LAMBDA it1 :
  Try(AfterIter(g, it1), LAMBDA ga :
  Try(Master_addchild_collections(ga, self, it1.schedule, 1), LAMBDA g1 :
  TryCall(iter(g1, cnew), LAMBDA es2 :
  Try(Master_addchild_check(es2.g, self, es2.value, 1), LAMBDA g2 :
  \* OK, this addition is safe
  With(collections(g2, cnew, FALSE, TRUE), LAMBDA it3 :
  Try(AfterIter(g2, it3), LAMBDA gb :
  With(SetMasters(gb, it3.schedule, 1, self), LAMBDA g3 :
  TryCall(iter(g3, cnew), LAMBDA es4 :
  Try(Master_addchild_read(es4.g, self, es4.value, 1), LAMBDA g4 :
  [g4 EXCEPT !.children[self] = ChildrenSet(g4, @, g4.name[cnew], cnew),
             !.sorted[self] = <<>>]))))))))))

addchild(g, self, cnew) ==
  IF g.kind[self] = "Master" THEN MasterCollection_addchild(g, self, cnew)
  ELSE ProtoCollection_addchild(g, self, cnew)

\* ---------------------------------------------------------- removechild
\* ProtoCollection.removechild(target): cname is the name looked up, target
\* the collection passed (None when the caller passed the name)
removechild(g, self, cname, target) ==
  LET cur == ChildrenGet(g, g.children[self], cname)
      g1 == [g EXCEPT !.children[self] = ChildrenDel(g, @, cname)]
      \* if target.master and not target.master.has(cname)
      g2 == IF Truthy(g1, g1.master[cur])
               /\ ~MasterCollection_has(g1, g1.master[cur], cname)
            THEN [g1 EXCEPT !.master[cur] = None]
            ELSE g1
  IN IF cur = None THEN Raise(g, "Exception")
     ELSE IF target # None /\ target # cur THEN Raise(g, "Exception")
     ELSE IF g.kind[self] # "Master"
     THEN With(g2, LAMBDA g3 : ResetSorted(g3, MasterOrSelf(g3, self)))
     ELSE g2

\* --------------------------------------------------------------- remove
\* variant of the call that takes the entry out of the master's flat map too
remove_here_master(g, self, entryname, target, fatal) ==
  LET cur == EntriesGet(g.entries[self], entryname)
      g1 == [g EXCEPT !.entries[self] = EntriesDel(@, entryname),
                      !.entries[MasterOrSelf(g, self)] = EntriesDel(@, entryname)]
  IN IF cur # None
     THEN IF target # None /\ target # cur
          THEN [g |-> Raise(g, "Exception"), value |-> 0]
          ELSE [g |-> ResetSorted(g1, MasterOrSelf(g1, self)), value |-> 1]
     ELSE IF ~fatal THEN [g |-> g, value |-> 0]
     ELSE [g |-> Raise(g, "Exception"), value |-> 0]

\* ProtoCollection.remove(target, recurse=False, fatal): [g, value];
\* target is None when the caller passed the entry name
remove_here(g, self, entryname, target, fatal) ==
  LET cur == EntriesGet(g.entries[self], entryname)
      g1 == [g EXCEPT !.entries[self] = EntriesDel(@, entryname)]
  IN IF cur # None
     THEN IF target # None /\ target # cur
          THEN [g |-> Raise(g, "Exception"), value |-> 0]
          ELSE [g |-> ResetSorted(g1, MasterOrSelf(g1, self)), value |-> 1]
     ELSE IF ~fatal THEN [g |-> g, value |-> 0]
     ELSE [g |-> Raise(g, "Exception"), value |-> 0]

RECURSIVE remove_loop(_, _, _, _, _)
\* "for c in self.collections(): nfound += c.remove(target, False, False)"
remove_loop(r, schedule, i, entryname, target) ==
  IF i > Len(schedule) \/ r.g.exc # "" THEN r
  ELSE With(remove_here(r.g, schedule[i], entryname, target, FALSE),
            LAMBDA one : remove_loop([g |-> one.g, value |-> r.value + one.value],
                                     schedule, i + 1, entryname, target))

\* ProtoCollection.remove(target, recurse, fatal): [g, value].  byname says
\* that the caller passed the entry's name instead of the entry; the
\* recursive branch then hands None to the inner calls, which reject it.
remove(g, self, entry, byname, recurse, fatal) ==
  LET entryname == EntryName[entry]
      target == IF byname THEN None ELSE entry
  IN
  IF ~recurse THEN remove_here(g, self, entryname, target, fatal)
  ELSE IF target = None THEN [g |-> Raise(g, "Exception"), value |-> 0]
  ELSE
  With(remove_here(g, self, entryname, target, FALSE), LAMBDA r0 :
  IF r0.g.exc # "" THEN r0 ELSE
  With(collections(r0.g, self, FALSE, TRUE), LAMBDA it :
  With(IF it.exc # "" THEN [g |-> AfterIter(r0.g, it), value |-> r0.value]
       ELSE remove_loop([g |-> AfterIter(r0.g, it), value |-> r0.value],
                        it.schedule, 1, entryname, target), LAMBDA r1 :
  IF r1.g.exc # "" THEN r1 ELSE
  With(IF r1.value > 0 THEN ResetSorted(r1.g, MasterOrSelf(r1.g, self)) ELSE r1.g,
       LAMBDA g2 :
         IF g2.exc # "" THEN [g |-> g2, value |-> 0]
         ELSE IF ~fatal \/ r1.value > 0 THEN [g |-> g2, value |-> r1.value]
         ELSE [g |-> Raise(g2, "Exception"), value |-> 0]))))

\* ---------------------------------------------------------------- merge
\* the next object id not yet constructed; None when the model has no more
NewObject(g) ==
  IF \E n \in Node : g.kind[n] = "Free"
  THEN CHOOSE n \in Node : g.kind[n] = "Free" /\ \A k \in Node : g.kind[k] = "Free" => n <= k
  ELSE None

\* Collection(c) / SubCollection(c): ProtoCollection.__init__ given a
\* collection copies its name and its two dicts; master and _iflag are the
\* class defaults
CopyCollection(g, new, cls, c) ==
  [g EXCEPT !.kind[new] = cls,
            !.name[new] = g.name[c],
            !.entries[new] = g.entries[c],
            !.children[new] = g.children[c],
            !.master[new] = None,
            !.iflag[new] = FALSE,
            !.sorted[new] = <<>>]

\* variant of _demote that gives the master to the new collection alone and
\* does not descend into its children
demote_top(st, target, d) ==
  IF ~st.g.iflag[target]
  THEN [st EXCEPT !.g.master[target] = st.master, !.g.iflag[target] = TRUE]
  ELSE st

RECURSIVE demote(_, _, _)
RECURSIVE demote_children(_, _, _, _)
\* the closure _demote(target, count) of merge; st is [g, record, master],
\* record maps the names of the collections already demoted to their copies
demote(st, target, d) ==
  IF ~st.g.iflag[target]
  THEN demote_children(
         [st EXCEPT !.g.master[target] = st.master, !.g.iflag[target] = TRUE],
         target, 1, d)
  ELSE st

demote_children(st, target, i, d) ==
  IF i > Len(st.g.children[target]) \/ st.g.exc # "" THEN st
  ELSE LET c == st.g.children[target][i]
           known == {p \in st.record : p[1] = st.g.name[c]}
           new == NewObject(st.g)
           \* cc = record.get(c.name), or a new SubCollection(c)
           cc == IF known # {} THEN (CHOOSE p \in known : TRUE)[2] ELSE new
           st1 == IF st.g.kind[c] = "SubCollection" THEN st
                  ELSE IF cc = None THEN [st EXCEPT !.g.exc = "NoObject"]
                  ELSE [st EXCEPT
                          !.g = [(IF known # {} THEN st.g
                                  ELSE CopyCollection(st.g, new, "SubCollection", c))
                                 EXCEPT !.children[target][i] = cc],
                          !.record = @ \cup {<<st.g.name[c], cc>>}]
           next == IF st.g.kind[c] = "SubCollection" THEN c ELSE cc
       IN IF st1.g.exc # "" THEN st1
          ELSE demote_children(demote(st1, next, d + 1), target, i + 1, d)

RECURSIVE UpdateEntries(_, _, _)
\* dict.update: master._entries.update(mc._entries)
UpdateEntries(es, new, i) ==
  IF i > Len(new) THEN es
  ELSE UpdateEntries(EntriesSet(es, new[i]), new, i + 1)

\* merge, from "OK, the merge is safe": the entries go to the master, the
\* new collection is constructed from mc, demoted and made a child of self,
\* and mc is emptied
merge_import(g, self, mc, newname) ==
  LET m == g.master[self]
  IN
  With([g EXCEPT !.entries[m] = UpdateEntries(@, g.entries[mc], 1)], LAMBDA g2 :
  IF NewObject(g2) = None THEN Raise(g, "NoObject") ELSE
  With(NewObject(g2), LAMBDA nc :
  With(demote([g |-> [CopyCollection(g2, nc,
                                     IF g2.kind[self] = "Master" THEN "Collection"
                                     ELSE "SubCollection", mc)
                      EXCEPT !.name[nc] = newname],
               record |-> {}, master |-> m], nc, 1), LAMBDA dm :
  Try(dm.g, LAMBDA gd :
  With([gd EXCEPT !.iflag = set_iflag(gd.children, [iflag |-> gd.iflag, count |-> 0],
                                      nc, FALSE).iflag], LAMBDA g4 :
  With([g4 EXCEPT !.children[self] = ChildrenSet(g4, @, newname, nc),
                  !.sorted[self] = <<>>], LAMBDA g5 :
  [g5 EXCEPT !.entries[mc] = <<>>, !.children[mc] = <<>>, !.sorted[mc] = <<>>]))))))

\* variant of the entry test of merge that finds no collision
merge_conflict_none(g, m, mc) == FALSE

\* merge, "for new in mc": an entry of mc whose name the master maps to
\* another entry object
merge_conflict(g, m, mc) ==
  \E i \in 1 .. Len(g.entries[mc]) :
    LET e == g.entries[mc][i]
        o == EntriesGet(g.entries[m], EntryName[e])
    IN o # None /\ o # e

\* ProtoCollection.merge(mc, name)
merge(g, self, mc, newname) ==
  IF g.kind[mc] # "Master" THEN Raise(g, "Exception")
  ELSE IF g.master[self] = mc THEN Raise(g, "Exception")
  ELSE IF g.master[self] = None THEN Raise(g, "AttributeError")
  ELSE
  LET m == g.master[self]
  IN
  \* master.haschild(name) or mc.haschild(name)
  TryCall(getchild(g, m, newname), LAMBDA h1 :
  IF h1.value # None THEN Raise(h1.g, "Exception") ELSE
  TryCall(getchild(h1.g, mc, newname), LAMBDA h2 :
  IF h2.value # None THEN Raise(h2.g, "Exception") ELSE
  With(collections(h2.g, m, FALSE, FALSE), LAMBDA old :
  Try(AfterIter(h2.g, old), LAMBDA ga :
  With(collections(ga, mc, FALSE, FALSE), LAMBDA new :
  Try(AfterIter(ga, new), LAMBDA g1 :
  IF {g.name[old.schedule[i]] : i \in 1 .. Len(old.schedule)}
       \cap {g.name[new.schedule[i]] : i \in 1 .. Len(new.schedule)} # {}
  THEN Raise(g1, "Exception")
  ELSE IF merge_conflict(g, m, mc) THEN Raise(g1, "Exception")
  ELSE merge_import(g1, self, mc, newname)))))))

\* ----------------------------------------------------------------- sort
\* list.insert of the stable sort: e goes behind the items whose key is not
\* greater than its own
SortedInsert(s, e) ==
  LET k == Cardinality({i \in 1 .. Len(s) : EntryYear[s[i]] <= EntryYear[e]})
  IN SubSeq(s, 1, k) \o <<e>> \o SubSeq(s, k + 1, Len(s))

RECURSIVE StableSort(_)
\* sorted(self, key=_key) when the keys can be compared: ascending, items of
\* equal key in their order of iteration
StableSort(es) ==
  IF es = <<>> THEN <<>>
  ELSE SortedInsert(StableSort(SubSeq(es, 1, Len(es) - 1)), es[Len(es)])

RECURSIVE Deduplicate(_)
\* the "Deduplicate the list" loop of sort: an item that is the item before
\* it is deleted
Deduplicate(temp) ==
  IF Len(temp) < 2 THEN temp
  ELSE LET front == Deduplicate(SubSeq(temp, 1, Len(temp) - 1))
       IN IF temp[Len(temp)] = front[Len(front)] THEN front
          ELSE Append(front, temp[Len(temp)])

\* sorted(self, key=_key): [value, g].  _key gives None for an entry without
\* the item, and Python raises TypeError when a sort compares None with
\* anything; a sort of two or more items compares every item.
sort_sorted(g, self) ==
  With(iter(g, self), LAMBDA es :
    IF es.g.exc # "" THEN [value |-> <<>>, g |-> es.g]
    ELSE IF Len(es.value) >= 2 /\ \E i \in 1 .. Len(es.value) : EntryYear[es.value[i]] = None
    THEN [value |-> <<>>, g |-> Raise(es.g, "TypeError")]
    ELSE [value |-> StableSort(es.value), g |-> es.g])

\* sort, the block under "if by not in self._sorted or refresh"
sort_refresh(g, self) ==
  With(sort_sorted(g, self), LAMBDA temp :
    IF temp.g.exc # "" THEN temp.g
    ELSE [temp.g EXCEPT !.sorted[self] = <<Deduplicate(temp.value)>>])

\* sort, the block under "if omit or not ascending": [g, value].  The search
\* "for index in range(len(result), -1, -1)" starts by reading
\* result[len(result)], which raises IndexError for every list.
sort_modified(g, result, ascending, omit) ==
  LET index == Len(result)
  IN IF index >= Len(result) THEN [g |-> Raise(g, "IndexError"), value |-> <<>>]
     ELSE [g |-> g, value |-> SubSeq(result, 1, index + 1)]

\* ProtoCollection.sort(by="year", refresh, ascending, omit): [g, value]
sort(g, self, refresh, ascending, omit) ==
  With(IF g.sorted[self] = <<>> \/ refresh THEN sort_refresh(g, self) ELSE g, LAMBDA g1 :
    IF g1.exc # "" THEN [g |-> g1, value |-> <<>>]
    ELSE IF omit \/ ~ascending
    THEN sort_modified(g1, g1.sorted[self][1], ascending, omit)
    ELSE [g |-> g1, value |-> g1.sorted[self][1]])

\* ----------------------------------------------------------- duplicates
\* str.isalpha and str.lower on one character
isalpha(char) == \E i \in 1 .. Len(LowerChar) : char \in {LowerChar[i], UpperChar[i]}

lower(char) ==
  IF \E i \in 1 .. Len(UpperChar) : UpperChar[i] = char
  THEN LowerChar[CHOOSE i \in 1 .. Len(UpperChar) : UpperChar[i] = char]
  ELSE char

\* the place of a lower-case letter in the order of the characters
CharRank(char) == CHOOSE i \in 1 .. Len(LowerChar) : LowerChar[i] = char

\* _fingerprint(text): the letters of text, lower-cased
RECURSIVE fingerprint(_)
fingerprint(text) ==
  IF text = <<>> THEN <<>>
  ELSE (IF isalpha(Head(text)) THEN <<lower(Head(text))>> ELSE <<>>)
       \o fingerprint(Tail(text))

\* _dup_iter: the pair (fingerprint, entry) of one entry
dup_iter(e) ==
  [fp |-> fingerprint((IF e \in HasAuthor THEN EntryAuthor[e] ELSE <<>>)
                      \o (IF e \in HasTitle THEN EntryTitle[e] ELSE <<>>)),
   e |-> e]

\* a < b for two strings of lower-case letters
RECURSIVE StrLess(_, _)
StrLess(a, b) ==
  IF b = <<>> THEN FALSE
  ELSE IF a = <<>> THEN TRUE
  ELSE IF Head(a) # Head(b) THEN CharRank(Head(a)) < CharRank(Head(b))
  ELSE StrLess(Tail(a), Tail(b))

\* Entry.__lt__: self.name < other.name
NameRank(e) == CHOOSE i \in 1 .. Len(NameOrder) : NameOrder[i] = EntryName[e]

Entry_lt(a, b) == NameRank(a) < NameRank(b)

\* p < q for two tuples (fingerprint, entry)
PairLess(p, q) ==
  \/ StrLess(p.fp, q.fp)
  \/ p.fp = q.fp /\ Entry_lt(p.e, q.e)

\* sorted(_dup_iter(self)): a stable sort of the pairs
RECURSIVE DupInsert(_, _)
DupInsert(s, p) ==
  IF s = <<>> THEN <<p>>
  ELSE IF PairLess(p, Head(s)) THEN <<p>> \o s
  ELSE <<Head(s)>> \o DupInsert(Tail(s), p)

RECURSIVE DupSorted(_)
DupSorted(ps) ==
  IF ps = <<>> THEN <<>>
  ELSE DupInsert(DupSorted(SubSeq(ps, 1, Len(ps) - 1)), ps[Len(ps)])

\* the objects a group of duplicates holds
EntryObject(e) == [class |-> "Entry", id |-> e]

NodeObject(g, n) == [class |-> g.kind[n], id |-> n]

\* the loop "for fp,e in candidates", from candidate i on; dups is the list
\* built so far, active the flag
RECURSIVE duplicates_loop(_, _, _, _, _, _)
duplicates_loop(g, self, candidates, i, dups, active) ==
  IF i > Len(candidates) THEN dups
  ELSE IF i > 1 /\ candidates[i - 1].fp = candidates[i].fp
       THEN IF active
            THEN duplicates_loop(g, self, candidates, i + 1,
                   [dups EXCEPT ![Len(dups)] = Append(@, NodeObject(g, self))],
                   TRUE)
            ELSE duplicates_loop(g, self, candidates, i + 1,
                   Append(dups, <<EntryObject(candidates[i - 1].e),
                                  EntryObject(candidates[i].e)>>),
                   TRUE)
       ELSE duplicates_loop(g, self, candidates, i + 1, dups, FALSE)

\* ProtoCollection.duplicates(): [g, value]
duplicates(g, self) ==
  With(iter(g, self), LAMBDA it :
    IF it.g.exc # "" THEN [g |-> it.g, value |-> <<>>]
    ELSE [g |-> it.g,
          value |-> duplicates_loop(it.g, self,
                      DupSorted([i \in 1 .. Len(it.value) |-> dup_iter(it.value[i])]),
                      1, <<>>, FALSE)])

\* ---------------------------------------------------------------- loadbib
\* special = '"{},@#='
special == {"\"", "{", "}", ",", "@", "#", "="}

\* str.isspace and str.upper on one character of the texts read
isspace(char) == char \in {" ", "\n"}

upper(char) ==
  IF \E i \in 1 .. Len(LowerChar) : LowerChar[i] = char
  THEN UpperChar[CHOOSE i \in 1 .. Len(LowerChar) : LowerChar[i] = char]
  ELSE char

\* the keys of entrytypes, and the two types loadbib treats itself
entrytypes ==
  {<<"@", "A", "R", "T", "I", "C", "L", "E">>, <<"@", "I", "N", "P", "R", "O", "C", "E", "E", "D", "I", "N", "G", "S">>,
   <<"@", "T", "E", "C", "H", "R", "E", "P", "O", "R", "T">>, <<"@", "B", "O", "O", "K">>, <<"@", "M", "I", "S", "C">>}

AtString == <<"@", "S", "T", "R", "I", "N", "G">>

AtComment == <<"@", "C", "O", "M", "M", "E", "N", "T">>

\* a dict as a set of pairs <<key, value>>, one pair for each key
DictHas(d, k) == \E p \in d : p[1] = k

DictGet(d, k) == (CHOOSE p \in d : p[1] = k)[2]

DictSet(d, k, v) == {p \in d : p[1] # k} \cup {<<k, v>>}

\* The local variables of loadbib before the first character is read; data
\* is the text read so far, output the entries added to the MasterCollection
\* that is returned, exc the exception raised, returned whether the function
\* returned output.
LoadbibInit ==
  [data |-> <<>>, state |-> 0, activetype |-> <<>>, activename |-> <<>>,
   activeitem |-> <<>>, activedata |-> <<>>, word |-> <<>>,
   endofentry |-> FALSE, endofitem |-> FALSE, comment |-> FALSE,
   string |-> {}, bib |-> {}, bracket |-> 0, quote |-> FALSE,
   output |-> <<>>, exc |-> "", returned |-> FALSE]

\* STATE 0: burn whitespace looking for an entry
state0(f, char) ==
  IF f.bib # {} \/ f.activename # <<>> \/ f.activetype # <<>> \/ f.activeitem # <<>>
  THEN Raise(f, "internal error")
  ELSE IF isspace(char) THEN f
  ELSE IF char = "@" THEN [f EXCEPT !.activetype = <<char>>, !.state = 1]
  ELSE Raise(f, "expected @")

\* the "{" that opens an entry; next is the state of an entry with a name
open_entry(f, next) ==
  [f EXCEPT !.state = IF f.activetype = AtString THEN 5
                      ELSE IF f.activetype = AtComment THEN 11
                      ELSE next,
            !.bracket = 1]

\* STATE 1: read in the entry type
state1(f, char) ==
  IF isalpha(char) THEN [f EXCEPT !.activetype = Append(@, upper(char))]
  ELSE IF isspace(char) THEN [f EXCEPT !.state = 2]
  ELSE IF char = "{" THEN open_entry(f, 3)
  ELSE Raise(f, "unexpected character in entry type")

\* STATE 2: burn whitespace while looking for the { opening the entry; the
\* message of the error has "\{" in it, which str.format rejects
state2(f, char) ==
  IF isspace(char) THEN f
  ELSE IF char = "{" THEN open_entry(f, 3)
  ELSE Raise(f, "ValueError in the format of the message")

\* STATE 3: burn whitespace looking for the entry name
state3(f, char) ==
  IF f.activename # <<>> THEN Raise(f, "internal error")
  ELSE IF isspace(char) THEN f
  ELSE IF char \in special THEN Raise(f, "unexpected character in entry name")
  ELSE [f EXCEPT !.activename = <<char>>, !.state = 4]

\* STATE 4: read in the entry name
state4(f, char) ==
  IF char = "}" THEN [f EXCEPT !.bracket = 0, !.endofentry = TRUE]
  ELSE IF char = "," THEN [f EXCEPT !.state = 5]
  ELSE IF isspace(char) THEN f
  ELSE IF char \in special THEN Raise(f, "illegal special character in entry name")
  ELSE [f EXCEPT !.activename = Append(@, char)]

\* STATE 5: burn whitespace looking for an item name; a character that is
\* neither a letter nor special is passed over
state5(f, char) ==
  IF f.activeitem # <<>> THEN Raise(f, "internal error")
  ELSE IF isspace(char) THEN f
  ELSE IF char = "}" THEN [f EXCEPT !.bracket = 0, !.endofentry = TRUE]
  ELSE IF isalpha(char) THEN [f EXCEPT !.state = 6, !.activeitem = <<char>>]
  ELSE IF char \in special THEN Raise(f, "unexpected character in entry")
  ELSE f

\* STATE 6: read in the item name
state6(f, char) ==
  IF f.quote \/ f.bracket # 1 THEN Raise(f, "internal error")
  ELSE IF char = "=" THEN [f EXCEPT !.activedata = <<>>, !.word = <<>>, !.state = 8]
  ELSE IF isalpha(char) THEN [f EXCEPT !.activeitem = Append(@, char)]
  ELSE IF isspace(char) THEN [f EXCEPT !.state = 7]
  ELSE Raise(f, "illegal character in item name")

\* STATE 7: burn whitespace looking for =
state7(f, char) ==
  IF char = "=" THEN [f EXCEPT !.activedata = <<>>, !.word = <<>>, !.state = 8]
  ELSE IF isspace(char) THEN f
  ELSE Raise(f, "expected =")

\* STATE 8: burn whitespace looking for item data
state8(f, char) ==
  IF f.bracket # 1 THEN Raise(f, "internal error")
  ELSE IF char = "{" THEN [f EXCEPT !.bracket = @ + 1, !.state = 9]
  ELSE IF char = "\"" THEN [f EXCEPT !.quote = TRUE, !.state = 9]
  ELSE IF char = "," THEN [f EXCEPT !.activedata = <<>>, !.endofitem = TRUE]
  ELSE IF isspace(char) THEN f
  ELSE IF char \in special THEN Raise(f, "unexpected special character")
  ELSE [f EXCEPT !.word = <<char>>, !.state = 9]

\* "if word in string: activedata += string[word]; else: activedata += word"
substitute(f) ==
  [f EXCEPT !.activedata = @ \o (IF DictHas(f.string, f.word)
                                 THEN DictGet(f.string, f.word)
                                 ELSE f.word)]

\* STATE 9, the branch of "}"
\* variant of state9_close that looks the text in braces up in the macros
state9_close_lookup(f, char) ==
  IF f.quote THEN [f EXCEPT !.word = Append(@, char)]
  ELSE IF f.bracket - 1 = 1
       THEN [substitute(f) EXCEPT !.bracket = 1, !.state = 10]
       ELSE [f EXCEPT !.bracket = @ - 1, !.word = Append(@, char)]

state9_close(f, char) ==
  IF f.quote THEN [f EXCEPT !.word = Append(@, char)]
  ELSE IF f.bracket - 1 = 1
       THEN [f EXCEPT !.bracket = 1, !.state = 10, !.activedata = @ \o f.word]
       ELSE [f EXCEPT !.bracket = @ - 1, !.word = Append(@, char)]

\* STATE 9, the branch of the double quote
state9_quote(f, char) ==
  IF f.bracket > 1 THEN [f EXCEPT !.word = Append(@, char)]
  ELSE IF f.quote
       THEN [f EXCEPT !.quote = FALSE, !.state = 10, !.activedata = @ \o f.word]
       ELSE Raise(f, "illegal start of quote")

\* STATE 9: read item data
state9(f, char) ==
  IF char = "{" THEN [f EXCEPT !.bracket = @ + 1, !.word = Append(@, char)]
  ELSE IF char = "}" THEN state9_close(f, char)
  ELSE IF char = "\"" THEN state9_quote(f, char)
  ELSE IF char = ","
       THEN IF f.quote \/ f.bracket > 1 THEN [f EXCEPT !.word = Append(@, char)]
            ELSE [substitute(f) EXCEPT !.endofitem = TRUE]
  ELSE IF isspace(char)
       THEN IF f.quote \/ f.bracket > 1 THEN [f EXCEPT !.word = Append(@, char)]
            ELSE [substitute(f) EXCEPT !.state = 10]
  ELSE [f EXCEPT !.word = Append(@, char)]

\* variant of state 10 that passes over a character it does not expect
state10_pass(f, char) ==
  IF f.quote \/ f.bracket # 1 THEN Raise(f, "internal error")
  ELSE IF char = "," THEN [f EXCEPT !.endofitem = TRUE]
  ELSE IF char = "}"
       THEN [f EXCEPT !.bracket = 0, !.endofitem = TRUE, !.endofentry = TRUE]
  ELSE IF char = "#" THEN [f EXCEPT !.word = <<>>, !.state = 8]
  ELSE f

\* STATE 10: read trailing whitespace until , or # or }
state10(f, char) ==
  IF f.quote \/ f.bracket # 1 THEN Raise(f, "internal error")
  ELSE IF char = "," THEN [f EXCEPT !.endofitem = TRUE]
  ELSE IF char = "}"
       THEN [f EXCEPT !.bracket = 0, !.endofitem = TRUE, !.endofentry = TRUE]
  ELSE IF char = "#" THEN [f EXCEPT !.word = <<>>, !.state = 8]
  ELSE IF isspace(char) THEN f
  ELSE Raise(f, "unexpected character after item data")

\* STATE 11: reading in a comment, until bracket == 0
state11(f, char) ==
  IF char = "{" THEN [f EXCEPT !.bracket = @ + 1]
  ELSE IF char = "}"
       THEN [f EXCEPT !.bracket = @ - 1, !.endofentry = (f.bracket - 1 = 0)]
  ELSE f

\* "if endofitem:"; the entry classes of this module have no get_rules, so
\* the item of an entry of a recognized type raises AttributeError before
\* it is stored in bib
process_endofitem(f) ==
  IF ~f.endofitem THEN f
  ELSE IF f.quote \/ f.bracket > 1 THEN Raise(f, "unclosed quote or bracket")
  ELSE IF f.activetype = AtString
       THEN [f EXCEPT !.string = DictSet(@, f.activeitem, f.activedata),
                      !.activeitem = <<>>, !.activedata = <<>>, !.word = <<>>,
                      !.endofitem = FALSE, !.state = 5]
  ELSE IF f.activetype \notin entrytypes THEN Raise(f, "Unrecognized entry type")
  ELSE Raise(f, "AttributeError get_rules")

\* "if endofentry:"; Entry.__setattr__ denies "newentry.bib = bib", so the
\* entry of a recognized type raises before output.add(newentry)
process_endofentry(f) ==
  IF ~f.endofentry THEN f
  ELSE IF f.activetype \in {AtString, AtComment}
       THEN [f EXCEPT !.state = 0, !.bracket = 0, !.quote = FALSE, !.bib = {},
                      !.activename = <<>>, !.activetype = <<>>,
                      !.activeitem = <<>>, !.activedata = <<>>, !.word = <<>>,
                      !.endofentry = FALSE, !.endofitem = FALSE]
  ELSE IF f.activetype \in entrytypes
       THEN Raise(f, "Permission denied to write to attribute bib")
  ELSE Raise(f, "Unrecognized entry type")

\* the state conditions of the loop body
loadbib_state(f, char) ==
  IF f.state = 0 THEN state0(f, char)
  ELSE IF f.state = 1 THEN state1(f, char)
  ELSE IF f.state = 2 THEN state2(f, char)
  ELSE IF f.state = 3 THEN state3(f, char)
  ELSE IF f.state = 4 THEN state4(f, char)
  ELSE IF f.state = 5 THEN state5(f, char)
  ELSE IF f.state = 6 THEN state6(f, char)
  ELSE IF f.state = 7 THEN state7(f, char)
  ELSE IF f.state = 8 THEN state8(f, char)
  ELSE IF f.state = 9 THEN state9(f, char)
  ELSE IF f.state = 10 THEN state10(f, char)
  ELSE IF f.state = 11 THEN state11(f, char)
  ELSE f

\* variant of the comment test that takes every % for the start of a comment
loadbib_comment_any(f, char) ==
  IF f.comment \/ char = "%"
  THEN [f EXCEPT !.comment = (char # "\n")]
  ELSE loadbib_state(f, char)

\* "if not quote and not bracket and char=='%': comment = True", then
\* "if comment:" or the state conditions
loadbib_comment(f, char) ==
  IF f.comment \/ (~f.quote /\ f.bracket = 0 /\ char = "%")
  THEN [f EXCEPT !.comment = (char # "\n")]
  ELSE loadbib_state(f, char)

\* the body of "for char in data", for the next character of data
loadbib_char(f, char) ==
  Try(loadbib_comment([f EXCEPT !.data = Append(@, char)], char), LAMBDA f1 :
    Try(process_endofitem(f1), LAMBDA f2 : process_endofentry(f2)))

\* variant of the test after the loop that looks at the brackets only
loadbib_eof_bracket(f) ==
  IF f.bracket # 0 THEN Raise(f, "Unexpected end-of-file")
  ELSE [f EXCEPT !.returned = TRUE]

\* after the loop: "if bracket != 0 or state!=0: raise", "return output"
loadbib_eof(f) ==
  IF f.bracket # 0 \/ f.state # 0 THEN Raise(f, "Unexpected end-of-file")
  ELSE [f EXCEPT !.returned = TRUE]

\* -------------------------------------------------- AuthorList._str_parse

\* The frame of _str_parse(raw): the locals of the function before the loop.
\* jj is the index of the character read last, counted from 0 as in the
\* code; -1 stands for a jj that is not bound yet.
StrParseInit(raw) ==
  [raw |-> raw, bracket |-> 0, quote |-> 0, squote |-> 0, ii |-> 0, jj |-> -1,
   authors |-> <<<<>>>>, exc |-> "", returned |-> FALSE]

\* this.append(text), where this is authors[-1]
this_append(authors, text) ==
  [authors EXCEPT ![Len(authors)] = Append(@, text)]

AndWord == <<"a", "n", "d">>

\* one turn of "for jj,tchar in enumerate(raw)"
str_parse_space(f, jj) ==
  LET text == SubSeq(f.raw, f.ii + 1, jj)
  IN IF f.ii < jj
     THEN IF text = AndWord
          THEN IF f.authors[Len(f.authors)] = <<>>
               THEN [f EXCEPT !.jj = jj, !.exc = "Leading \"and\" separator"]
               ELSE [f EXCEPT !.jj = jj, !.ii = jj + 1,
                              !.authors = Append(@, <<>>)]
          ELSE [f EXCEPT !.jj = jj, !.ii = jj + 1,
                         !.authors = this_append(@, text)]
     ELSE [f EXCEPT !.jj = jj, !.ii = jj + 1]

\* the turn with the test of the escape levels left out: every whitespace
\* separates
str_parse_char_plain(f) ==
  LET jj == f.jj + 1
      tchar == f.raw[jj + 1]
  IN IF isspace(tchar) THEN str_parse_space(f, jj)
     ELSE [f EXCEPT !.jj = jj]

str_parse_char(f) ==
  LET jj == f.jj + 1
      tchar == f.raw[jj + 1]
  IN IF isspace(tchar) /\ f.bracket = f.quote /\ f.quote = f.squote /\ f.squote = 0
     THEN str_parse_space(f, jj)
     ELSE IF tchar = "{" /\ f.quote = f.squote /\ f.squote = 0
     THEN [f EXCEPT !.jj = jj, !.bracket = @ + 1]
     ELSE IF tchar = "}" /\ f.quote = f.squote /\ f.squote = 0
     THEN IF f.bracket - 1 < 0
          THEN [f EXCEPT !.jj = jj, !.bracket = @ - 1,
                         !.exc = "Found } with no matching {"]
          ELSE [f EXCEPT !.jj = jj, !.bracket = @ - 1]
     ELSE IF tchar = "\"" /\ f.bracket = 0 /\ f.squote = 0
     THEN [f EXCEPT !.jj = jj, !.quote = IF @ # 0 THEN 0 ELSE 1]
     ELSE IF tchar = "'" /\ f.bracket = 0 /\ f.quote = 0
     THEN [f EXCEPT !.jj = jj, !.squote = IF @ # 0 THEN 0 ELSE 1]
     ELSE [f EXCEPT !.jj = jj]

\* the code after the loop with the last text dropped
str_parse_end_drop(f) ==
  IF f.jj = -1 THEN [f EXCEPT !.exc = "UnboundLocalError jj"]
  ELSE [f EXCEPT !.returned = TRUE]

\* the code after the loop: the text the string ends with
str_parse_end(f) ==
  LET text == SubSeq(f.raw, f.ii + 1, Len(f.raw))
  IN IF f.jj = -1 THEN [f EXCEPT !.exc = "UnboundLocalError jj"]
     ELSE IF f.jj + 1 > f.ii
     THEN IF text = AndWord
          THEN [f EXCEPT !.exc = "Trailing \"and\" separator"]
          ELSE [f EXCEPT !.authors = this_append(@, text), !.returned = TRUE]
     ELSE [f EXCEPT !.returned = TRUE]

RECURSIVE str_parse_loop(_)
str_parse_loop(f) ==
  IF f.exc # "" THEN f
  ELSE IF f.jj + 1 = Len(f.raw) THEN str_parse_end(f)
  ELSE str_parse_loop(str_parse_char(f))

\* AuthorList(raw) for a string: names = _str_parse(raw)
str_parse(raw) == str_parse_loop(StrParseInit(raw))

\* ------------------------------------------------ AuthorList: comparisons
\* An author list is the list names of an AuthorList: a sequence of authors,
\* each a sequence of name parts, each a text.  A comparison gives "True",
\* "False" or the name of the exception it raises.

Bool(b) == IF b THEN "True" ELSE "False"

\* the search of _initial from a part of the name; escape tells that the
\* character before was a backslash.  "" stands for the raise at the end.
RECURSIVE initial_from(_, _)
initial_from(part, escape) ==
  IF part = <<>> THEN ""
  ELSE IF escape THEN initial_from(Tail(part), FALSE)
  ELSE IF Head(part) = "\\" THEN initial_from(Tail(part), TRUE)
  ELSE IF isalpha(Head(part)) THEN upper(Head(part))
  ELSE initial_from(Tail(part), FALSE)

\* _initial(part)
initial(part) == initial_from(part, FALSE)

\* a < b for two upper-case letters
InitialLess(a, b) == CharRank(lower(a)) < CharRank(lower(b))

\* AuthorList.__lt__(self, b) from the i-th pair of zip(self.names, b.names)
RECURSIVE AuthorList_lt_from(_, _, _)
AuthorList_lt_from(a, b, i) ==
  IF i > Len(a) \/ i > Len(b) THEN Bool(Len(a) < Len(b))
  ELSE IF a[i] = <<>> \/ b[i] = <<>> THEN "IndexError"
  ELSE
  LET lasta == fingerprint(a[i][Len(a[i])])
      lastb == fingerprint(b[i][Len(b[i])])
  IN IF lasta # lastb THEN Bool(StrLess(lasta, lastb))
     ELSE IF Len(a[i]) = 1 \/ Len(b[i]) = 1 THEN AuthorList_lt_from(a, b, i + 1)
     ELSE IF initial(a[i][1]) = "" \/ initial(b[i][1]) = "" THEN "Exception"
     ELSE IF InitialLess(initial(a[i][1]), initial(b[i][1])) THEN "True"
     ELSE AuthorList_lt_from(a, b, i + 1)

\* AuthorList.__lt__(self, b)
AuthorList_lt(a, b) == AuthorList_lt_from(a, b, 1)

\* AuthorList.__gt__(self, b) from the i-th pair of zip(self.names, b.names)
RECURSIVE AuthorList_gt_from(_, _, _)
AuthorList_gt_from(a, b, i) ==
  IF i > Len(a) \/ i > Len(b) THEN Bool(Len(a) > Len(b))
  ELSE IF a[i] = <<>> \/ b[i] = <<>> THEN "IndexError"
  ELSE
  LET lasta == fingerprint(a[i][Len(a[i])])
      lastb == fingerprint(b[i][Len(b[i])])
  IN IF lasta # lastb THEN Bool(StrLess(lastb, lasta))
     ELSE IF Len(a[i]) = 1 \/ Len(b[i]) = 1 THEN AuthorList_gt_from(a, b, i + 1)
     ELSE IF initial(a[i][1]) = "" \/ initial(b[i][1]) = "" THEN "Exception"
     ELSE IF InitialLess(initial(b[i][1]), initial(a[i][1])) THEN "True"
     ELSE AuthorList_gt_from(a, b, i + 1)

\* AuthorList.__gt__(self, b)
AuthorList_gt(a, b) == AuthorList_gt_from(a, b, 1)

\* the loop of AuthorList.__eq__ from the i-th pair of the zip
RECURSIVE AuthorList_eq_from(_, _, _)
AuthorList_eq_from(a, b, i) ==
  IF i > Len(a) \/ i > Len(b) THEN "True"
  ELSE IF a[i] = <<>> \/ b[i] = <<>> THEN "IndexError"
  ELSE IF fingerprint(a[i][Len(a[i])]) # fingerprint(b[i][Len(b[i])]) THEN "False"
  ELSE IF Len(a[i]) = 1 \/ Len(b[i]) = 1 THEN AuthorList_eq_from(a, b, i + 1)
  ELSE IF initial(a[i][1]) = "" \/ initial(b[i][1]) = "" THEN "Exception"
  ELSE IF initial(a[i][1]) # initial(b[i][1]) THEN "False"
  ELSE AuthorList_eq_from(a, b, i + 1)

\* AuthorList.__eq__(self, b)
AuthorList_eq(a, b) ==
  IF Len(a) # Len(b) THEN "False" ELSE AuthorList_eq_from(a, b, 1)

\* no comparison made yet
NotCompared == [ab |-> "", ba |-> ""]
NoComparison ==
  [a |-> <<>>, b |-> <<>>, lt |-> NotCompared, gt |-> NotCompared,
   eq |-> NotCompared]

\* --------------------------------------------------------------- write_bib
\* str(n) for an integer n >= 0
Digit == <<"0", "1", "2", "3", "4", "5", "6", "7", "8", "9">>

RECURSIVE str_int(_)
str_int(n) ==
  IF n < 10 THEN <<Digit[n + 1]>>
  ELSE str_int(n \div 10) \o <<Digit[(n % 10) + 1]>>

\* str(value) of the value of an item: a string or an integer
str_value(value) ==
  IF value.type = "int" THEN str_int(value.v) ELSE value.v

\* "for item,value in self.bib.items(): write '  item = {value},\n'"
RECURSIVE write_bib_items(_)
write_bib_items(bib) ==
  IF bib = <<>> THEN <<>>
  ELSE <<" ", " ">> \o bib[1][1] \o <<" ", "=", " ", "{">>
       \o str_value(bib[1][2]) \o <<"}", ",", "\n">>
       \o write_bib_items(Tail(bib))

\* Entry.write_bib: the text written for entry e, an object with its tag,
\* its name and the items of its bib dict in order
write_bib(e) ==
  e.tag \o <<"{">> \o e.name \o <<",", "\n">>
  \o write_bib_items(e.bib) \o <<"}", "\n">>

\* -------------------------------------------------------------- Entry.post

\* A value of an item or of an attribute: a str (its characters), an int
\* (its number), a list (its members) or an AuthorList (its names).
StrValue(text) ==
  [type |-> "str", str |-> text, int |-> 0, list |-> <<>>, names |-> <<>>]
IntValue(n) ==
  [type |-> "int", str |-> <<>>, int |-> n, list |-> <<>>, names |-> <<>>]
ListValue(members) ==
  [type |-> "list", str |-> <<>>, int |-> 0, list |-> members, names |-> <<>>]
AuthorListValue(names) ==
  [type |-> "AuthorList", str |-> <<>>, int |-> 0, list |-> <<>>, names |-> names]

\* the class attributes tag, mandatory and optional
EntryClass ==
  [BookEntry |->
     [tag |-> "@BOOK",
      mandatory |-> {"author", "title", "publisher", "year", "address"},
      optional |-> {"edition"}],
   ManualEntry |->
     [tag |-> "@MANUAL",
      mandatory |-> {"title", "organization", "year"},
      optional |-> {"author", "address"}]]

\* Entry.__init__: the attributes of a new entry; stderr and stdout are what
\* the latest call has written, exc the exception it raised
NewEntry(class) ==
  [class |-> class, sourcefile |-> StrValue(<<>>), docfile |-> StrValue(<<>>),
   doc |-> StrValue(<<>>), collections |-> ListValue(<<>>), bib |-> <<>>,
   stderr |-> {}, stdout |-> {}, exc |-> "",
   fatal |-> FALSE, verbose |-> FALSE, strict |-> FALSE, posts |-> 0]

\* no entry exists
NoEntry == NewEntry("")

\* a line written to stderr or stdout
Line(msg, item, n) == [msg |-> msg, item |-> item, n |-> n]

isdigit(char) == \E d \in 1 .. 10 : Digit[d] = char

RECURSIVE int_digits(_)
int_digits(text) ==
  IF text = <<>> THEN 0
  ELSE 10 * int_digits(SubSeq(text, 1, Len(text) - 1))
       + ((CHOOSE d \in 1 .. 10 : Digit[d] = text[Len(text)]) - 1)

\* int(value); the strings are without sign, whitespace and underscore
int(value) ==
  IF value.type = "int" THEN [exc |-> "", value |-> value]
  ELSE IF value.type = "str"
  THEN IF value.str # <<>> /\ \A k \in 1 .. Len(value.str) : isdigit(value.str[k])
       THEN [exc |-> "", value |-> IntValue(int_digits(value.str))]
       ELSE [exc |-> "ValueError", value |-> value]
  ELSE [exc |-> "TypeError", value |-> value]

\* AuthorList(value)
AuthorList(raw) ==
  IF raw.type = "str"
  THEN LET f == str_parse(raw.str)
       IN IF f.exc = ""
          THEN [exc |-> "", value |-> AuthorListValue(f.authors)]
          ELSE [exc |-> f.exc, value |-> raw]
  ELSE IF raw.type = "AuthorList" THEN [exc |-> "", value |-> raw]
  ELSE [exc |-> "Unhandled input", value |-> raw]

dtype_call(dtype, value) ==
  IF dtype = "int" THEN int(value) ELSE AuthorList(value)

hassourcefile(e) == e.sourcefile.str # <<>>

\* Entry._convert with the exception of the conversion raised whatever
\* fatal is
convert_raise(e, item, dtype, fatal) ==
  IF e.exc # "" \/ item \notin DOMAIN e.bib THEN e
  ELSE LET r == dtype_call(dtype, e.bib[item])
       IN IF r.exc = "" THEN [e EXCEPT !.bib[item] = r.value]
          ELSE [e EXCEPT !.exc = r.exc]

\* Entry._convert(item, dtype, fatal); a call after an exception is not made
convert(e, item, dtype, fatal) ==
  IF e.exc # "" \/ item \notin DOMAIN e.bib THEN e
  ELSE LET r == dtype_call(dtype, e.bib[item])
       IN IF r.exc = "" THEN [e EXCEPT !.bib[item] = r.value]
          ELSE LET w == [e EXCEPT !.stderr =
                           @ \cup {Line("Unsupported format", item, 0)}
                             \cup (IF hassourcefile(e)
                                   THEN {Line("loaded from file", "", 0)}
                                   ELSE {})]
               IN IF fatal THEN [w EXCEPT !.exc = r.exc] ELSE w

\* Entry.post(fatal, verbose, strict)
Entry_post(e, fatal, verbose, strict) ==
  LET kk == DOMAIN e.bib
      missing == EntryClass[e.class].mandatory \ kk
      unknown == (kk \ EntryClass[e.class].mandatory) \ EntryClass[e.class].optional
      attrerr == IF e.collections.type # "list" THEN "collections"
                 ELSE IF \E k \in 1 .. Len(e.collections.list) :
                           e.collections.list[k].type # "str" THEN "collections"
                 ELSE IF e.docfile.type # "str" THEN "docfile"
                 ELSE IF e.doc.type # "str" THEN "doc"
                 ELSE ""
      err == Cardinality(missing) + (IF strict THEN Cardinality(unknown) ELSE 0)
             + (IF attrerr # "" THEN 1 ELSE 0)
      lines == {Line("Missing mandatory item", item, 0) : item \in missing}
               \cup (IF strict
                     THEN {Line("Unrecognized item", item, 0) : item \in unknown}
                     ELSE {})
               \cup (IF attrerr # "" THEN {Line("attribute", attrerr, 0)} ELSE {})
               \cup (IF err # 0 THEN {Line("Found errors", "", err)} ELSE {})
               \cup (IF err # 0 /\ hassourcefile(e)
                     THEN {Line("defined in source file", "", 0)} ELSE {})
      w == [e EXCEPT !.stderr = @ \cup lines]
  IN IF err # 0 /\ fatal THEN [w EXCEPT !.exc = "Entry.post"]
     ELSE IF verbose
     THEN [w EXCEPT !.stdout = {Line("Read in entry", "", 0)}
                                \cup (IF hassourcefile(e)
                                      THEN {Line("from file", "", 0)} ELSE {})]
     ELSE w

\* the frame of a call of post: nothing is written yet, no exception
post_call(e, fatal, verbose, strict) ==
  [e EXCEPT !.stderr = {}, !.stdout = {}, !.exc = "", !.fatal = fatal,
            !.verbose = verbose, !.strict = strict, !.posts = 1]

\* BookEntry.post and ManualEntry.post
post(e, fatal, verbose, strict) ==
  convert(convert(Entry_post(post_call(e, fatal, verbose, strict),
                             fatal, verbose, strict),
                  "author", "AuthorList", fatal),
          "year", "int", fatal)

\* ------------------------------------------------------- the state machine
\* the objects constructed so far
Existing == {n \in Node : kind[n] # "Free"}

\* the record of the last call: what was called on which object with which
\* arguments, the exception it raised, and what it returned
Call(op, self, arg, nm, opts, r, value, schedule) ==
  [op |-> op, self |-> self, arg |-> arg, name |-> nm, opts |-> opts,
   exc |-> r.exc, value |-> value, schedule |-> schedule,
   changed |-> [r EXCEPT !.exc = ""] # Graph]

NoCall == [op |-> "", self |-> None, arg |-> None, name |-> "", opts |-> <<>>,
           exc |-> "", value |-> 0, schedule |-> <<>>, changed |-> TRUE]

\* the objects after a call that left graph r
Becomes(r) ==
  /\ kind' = r.kind
  /\ name' = r.name
  /\ children' = r.children
  /\ entries' = r.entries
  /\ master' = r.master
  /\ iflag' = r.iflag
  /\ sorted' = r.sorted
  /\ UNCHANGED <<loadbib, authorlist, thisentry, compared>>

\* c.add(entry)
Add(self, e) ==
  \E r \in {add(Graph, self, e)} :
     /\ Becomes(r)
     /\ last' = Call("add", self, e, "", <<>>, r, 0, <<>>)

\* c.addchild(cnew)
AddChild(self, cnew) ==
  \E r \in {addchild(Graph, self, cnew)} :
     /\ Becomes(r)
     /\ last' = Call("addchild", self, cnew, "", <<>>, r, 0, <<>>)

\* c.removechild(collection) or c.removechild(collection_name)
RemoveChild(self, cold, byname) ==
  \E r \in {removechild(Graph, self, name[cold], IF byname THEN None ELSE cold)} :
     /\ Becomes(r)
     /\ last' = Call("removechild", self, cold, "", <<byname>>, r, 0, <<>>)

\* n = c.remove(entry or entryname, recurse, fatal)
Remove(self, e, byname, recurse, fatal) ==
  \E r \in {remove(Graph, self, e, byname, recurse, fatal)} :
     /\ Becomes(r.g)
     /\ last' = Call("remove", self, e, "", <<byname, recurse, fatal>>, r.g,
                     IF r.g.exc = "" THEN r.value ELSE 0, <<>>)

\* c.merge(mc, name); the call is left out when the model has no object id
\* left for the copies it constructs
Merge(self, mc, nm) ==
  \E r \in {merge(Graph, self, mc, nm)} :
     /\ r.exc # "NoObject"
     /\ Becomes(r)
     /\ last' = Call("merge", self, mc, nm, <<>>, r, 0, <<>>)

\* c.collections(depthfirst, rself)
Collections(self, depthfirst, rself) ==
  \E it \in {collections(Graph, self, depthfirst, rself)} :
     /\ Becomes(AfterIter(Graph, it))
     /\ last' = Call("collections", self, None, "", <<depthfirst, rself>>,
                     AfterIter(Graph, it), 0,
                     IF it.exc = "" THEN it.schedule ELSE <<>>)

\* c.get(entryname)
Get(self, e) ==
  \E t \in {get(Graph, self, EntryName[e])} :
     /\ Becomes(t.g)
     /\ last' = Call("get", self, e, "", <<>>, t.g,
                     IF t.g.exc = "" THEN t.value ELSE 0, <<>>)

\* list = c.sort("year", refresh, ascending, omit); the list returned is
\* recorded where the returned schedules are
Sort(self, refresh, ascending, omit) ==
  \E r \in {sort(Graph, self, refresh, ascending, omit)} :
     /\ Becomes(r.g)
     /\ last' = Call("sort", self, None, "", <<refresh, ascending, omit>>, r.g,
                     0, r.value)

\* dup = c.duplicates(); the groups returned are recorded where the
\* returned schedules are
Duplicates(self) ==
  \E r \in {duplicates(Graph, self)} :
     /\ Becomes(r.g)
     /\ last' = Call("duplicates", self, None, "", <<>>, r.g, 0, r.value)

Init ==
  /\ kind = [n \in Node |-> IF n \in MasterIds THEN "Master"
                            ELSE IF n \in CollectionIds THEN "Collection"
                            ELSE IF n \in SubCollectionIds THEN "SubCollection"
                            ELSE "Free"]
  /\ name = InitName
  /\ children = [n \in Node |-> <<>>]
  /\ entries = [n \in Node |-> <<>>]
  \* MasterCollection.__init__: a master always belongs to itself
  /\ master = [n \in Node |-> IF n \in MasterIds THEN n ELSE None]
  /\ iflag = [n \in Node |-> FALSE]
  /\ sorted = [n \in Node |-> <<>>]
  /\ loadbib = LoadbibInit
  /\ authorlist = StrParseInit(<<>>)
  /\ thisentry = NoEntry
  /\ compared = NoComparison
  /\ last = NoCall
  /\ steps = 0

\* One more call, of at most bound.  A call that changed no object leads to
\* a state whose continuations are those of the state before it, so it is
\* not followed further.
Step(bound) ==
  /\ steps < bound
  /\ last.changed
  /\ steps' = steps + 1

Next ==
  \/ Step(MaxSteps) /\ \E self \in Existing, e \in Entry :
       Add(self, e)
  \/ Step(MaxSteps) /\ \E self \in Existing, cnew \in Existing :
       AddChild(self, cnew)
  \/ Step(MaxSteps) /\ \E self \in Existing, cold \in Existing, byname \in BOOLEAN :
       RemoveChild(self, cold, byname)
  \/ Step(MaxSteps) /\ \E self \in Existing, e \in Entry, byname, recurse, fatal \in BOOLEAN :
       Remove(self, e, byname, recurse, fatal)
  \/ Step(MaxSteps) /\ \E self \in Existing, mc \in Existing, nm \in MergeNames :
       Merge(self, mc, nm)
  \/ Step(MaxSteps) /\ \E self \in Existing, depthfirst, rself \in BOOLEAN :
       Collections(self, depthfirst, rself)
  \/ Step(MaxSteps) /\ \E self \in Existing, e \in Entry :
       Get(self, e)

Spec == Init /\ [][Next]_vars

\* SpecBuild: the graph is built with add, addchild and merge alone.
NextBuild ==
  \/ Step(BuildSteps) /\ \E self \in Existing, e \in Entry :
       Add(self, e)
  \/ Step(BuildSteps) /\ \E self \in Existing, cnew \in Existing :
       AddChild(self, cnew)
  \/ Step(BuildSteps) /\ \E self \in Existing, mc \in Existing, nm \in MergeNames :
       Merge(self, mc, nm)

SpecBuild == Init /\ [][NextBuild]_vars

\* SpecSort: the calls that change the entries within reach of a collection,
\* and sort.
NextSort ==
  \/ Step(SortSteps) /\ \E self \in Existing, e \in Entry :
       Add(self, e)
  \/ Step(SortSteps) /\ \E self \in Existing, cnew \in Existing :
       AddChild(self, cnew)
  \/ Step(SortSteps) /\ \E self \in Existing, cold \in Existing :
       RemoveChild(self, cold, FALSE)
  \/ Step(SortSteps) /\ \E self \in Existing, e \in Entry :
       Remove(self, e, FALSE, FALSE, FALSE)
  \/ Step(SortSteps) /\ \E self \in Existing, mc \in Existing, nm \in MergeNames :
       Merge(self, mc, nm)
  \/ Step(SortSteps) /\ \E self \in Existing, refresh \in BOOLEAN :
       Sort(self, refresh, TRUE, FALSE)

SpecSort == Init /\ [][NextSort]_vars

\* SpecSortList: sort is called once on a Collection that holds up to
\* MaxSortLen entries of different names, in any order of insertion.
SortLists ==
  UNION {{s \in [1 .. n -> AllEntry] :
            \A i, j \in 1 .. n : i # j => EntryName[s[i]] # EntryName[s[j]]}
         : n \in 0 .. MaxSortLen}

InitSortList ==
  /\ kind = [n \in Node |-> IF n = 3 THEN "Collection" ELSE "Free"]
  /\ name = InitName
  /\ children = [n \in Node |-> <<>>]
  /\ \E s \in SortLists : entries = [n \in Node |-> IF n = 3 THEN s ELSE <<>>]
  /\ master = [n \in Node |-> None]
  /\ iflag = [n \in Node |-> FALSE]
  /\ sorted = [n \in Node |-> <<>>]
  /\ loadbib = LoadbibInit
  /\ authorlist = StrParseInit(<<>>)
  /\ thisentry = NoEntry
  /\ compared = NoComparison
  /\ last = NoCall
  /\ steps = 0

NextSortList ==
  \E refresh, ascending, omit \in BOOLEAN :
    /\ steps = 0
    /\ steps' = 1
    /\ Sort(3, refresh, ascending, omit)

SpecSortList == InitSortList /\ [][NextSortList]_vars

\* SpecSortShared: sort is called once on a Collection that has one
\* SubCollection as its child; each of the two holds up to two entries, and
\* an entry may be held by both (add, add, addchild: the names of different
\* entries of the two are different, or addchild would have raised).
SharedLists ==
  {st \in {s \in SortLists : Len(s) <= 2} \X {s \in SortLists : Len(s) <= 2} :
     \A i \in 1 .. Len(st[1]), j \in 1 .. Len(st[2]) :
       EntryName[st[1][i]] = EntryName[st[2][j]] => st[1][i] = st[2][j]}

InitSortShared ==
  /\ kind = [n \in Node |-> IF n = 3 THEN "Collection"
                            ELSE IF n = 4 THEN "SubCollection" ELSE "Free"]
  /\ name = InitName
  /\ children = [n \in Node |-> IF n = 3 THEN <<4>> ELSE <<>>]
  /\ \E st \in SharedLists :
       entries = [n \in Node |-> IF n = 3 THEN st[1]
                                 ELSE IF n = 4 THEN st[2] ELSE <<>>]
  /\ master = [n \in Node |-> None]
  /\ iflag = [n \in Node |-> FALSE]
  /\ sorted = [n \in Node |-> <<>>]
  /\ loadbib = LoadbibInit
  /\ authorlist = StrParseInit(<<>>)
  /\ thisentry = NoEntry
  /\ compared = NoComparison
  /\ last = NoCall
  /\ steps = 0

NextSortShared ==
  \E self \in {3, 4}, refresh \in BOOLEAN :
    /\ steps = 0
    /\ steps' = 1
    /\ Sort(self, refresh, TRUE, FALSE)

SpecSortShared == InitSortShared /\ [][NextSortShared]_vars

\* SpecDup: duplicates is called once on a Collection that holds up to
\* MaxDupLen entries of different names, in any order of insertion.
DupLists ==
  UNION {{s \in [1 .. n -> AllEntry] :
            \A i, j \in 1 .. n : i # j => EntryName[s[i]] # EntryName[s[j]]}
         : n \in 0 .. MaxDupLen}

InitDup ==
  /\ kind = [n \in Node |-> IF n = 3 THEN "Collection" ELSE "Free"]
  /\ name = InitName
  /\ children = [n \in Node |-> <<>>]
  /\ \E s \in DupLists : entries = [n \in Node |-> IF n = 3 THEN s ELSE <<>>]
  /\ master = [n \in Node |-> None]
  /\ iflag = [n \in Node |-> FALSE]
  /\ sorted = [n \in Node |-> <<>>]
  /\ loadbib = LoadbibInit
  /\ authorlist = StrParseInit(<<>>)
  /\ thisentry = NoEntry
  /\ compared = NoComparison
  /\ last = NoCall
  /\ steps = 0

NextDup ==
  /\ steps = 0
  /\ steps' = 1
  /\ Duplicates(3)

SpecDup == InitDup /\ [][NextDup]_vars

\* The texts loadbib reads.  The input of the claims about the undelimited
\* value and about the unmatched closing brace:
\*   @STRING{me = {M. Author}} @MISC{k2, author = me, year=2020}
\*   @ARTICLE{k1, title = {A } B}}
C17Input ==
  <<"@", "S", "T", "R", "I", "N", "G", "{", "m", "e", " ", "=", " ", "{",
    "M", ".", " ", "A", "u", "t", "h", "o", "r", "}", "}", " ", "@", "M",
    "I", "S", "C", "{", "k", "2", ",", " ", "a", "u", "t", "h", "o", "r",
    " ", "=", " ", "m", "e", ",", " ", "y", "e", "a", "r", "=", "2", "0",
    "2", "0", "}">>

C18Input ==
  <<"@", "A", "R", "T", "I", "C", "L", "E", "{", "k", "1", ",", " ", "t",
    "i", "t", "l", "e", " ", "=", " ", "{", "A", " ", "}", " ", "B", "}",
    "}">>

\* What precedes the last record of a text: nothing, a macro, a macro defined
\* twice, a line comment and a @COMMENT record.
\*   @STRING{me = {M. Author}}  | @STRING{me = {A}} @STRING{me = {B}}  | % c\n@COMMENT{ {x} } 
Prologues ==
  {<<>>,
   <<"@", "S", "T", "R", "I", "N", "G", "{", "m", "e", " ", "=", " ", "{",
     "M", ".", " ", "A", "u", "t", "h", "o", "r", "}", "}", " ">>,
   <<"@", "S", "T", "R", "I", "N", "G", "{", "m", "e", " ", "=", " ", "{",
     "A", "}", "}", " ", "@", "S", "T", "R", "I", "N", "G", "{", "m", "e",
     " ", "=", " ", "{", "B", "}", "}", " ">>,
   <<"%", " ", "c", "\n", "@", "C", "O", "M", "M", "E", "N", "T", "{",
     " ", "{", "x", "}", " ", "}", " ">>}

\* The last record up to its item data.
\*   @STRING{you =  | @MISC{k2, author =  | @article {k1 , title = | @FOO{k, f=
Heads ==
  {<<"@", "S", "T", "R", "I", "N", "G", "{", "y", "o", "u", " ", "=", " ">>,
   <<"@", "M", "I", "S", "C", "{", "k", "2", ",", " ", "a", "u", "t", "h",
     "o", "r", " ", "=", " ">>,
   <<"@", "a", "r", "t", "i", "c", "l", "e", " ", "{", "k", "1", " ", ",",
     " ", "t", "i", "t", "l", "e", " ", "=">>,
   <<"@", "F", "O", "O", "{", "k", ",", " ", "f", "=">>}

\* The item data: delimited by braces or quotes, undelimited, with braces
\* and quotes inside.
\*   {M. Author} | me | 2020 | "a {b} c" | {A } B} | "ab" | x{y} | "a } c" | {a "b" c}
Values ==
  {<<"{", "M", ".", " ", "A", "u", "t", "h", "o", "r", "}">>,
   <<"m", "e">>,
   <<"2", "0", "2", "0">>,
   <<"\"", "a", " ", "{", "b", "}", " ", "c", "\"">>,
   <<"{", "A", " ", "}", " ", "B", "}">>,
   <<"\"", "a", "b", "\"">>,
   <<"x", "{", "y", "}">>,
   <<"\"", "a", " ", "}", " ", "c", "\"">>,
   <<"{", "a", " ", "\"", "b", "\"", " ", "c", "}">>}

\* What follows the item data.
\*   } | ,} |  } |  # me, year=2020}
Ends ==
  {<<"}">>,
   <<",", "}">>,
   <<" ", "}">>,
   <<" ", "#", " ", "m", "e", ",", " ", "y", "e", "a", "r", "=", "2", "0",
     "2", "0", "}">>}

\* Texts that end in each of the other errors, and a text with concatenated
\* item data.
\*   @MISC{k1}
\*   @BOOK {k1 ,}
\*   x
\*   @MISC k
\*   @MISC{ {
\*   @MISC{k{
\*   @MISC{k, =
\*   @MISC{k, f1
\*   @MISC{k, f g
\*   @STRING{a = =
\*   @STRING{a = b"
\*   @STRING{a = b} % c\n @
\*   @STRING{a = {b}} @STRING{c = "x" # a # {y}, 2 d = c , e = ,} % end
Others ==
  {<<"@", "M", "I", "S", "C", "{", "k", "1", "}">>,
   <<"@", "B", "O", "O", "K", " ", "{", "k", "1", " ", ",", "}">>,
   <<"x">>,
   <<"@", "M", "I", "S", "C", " ", "k">>,
   <<"@", "M", "I", "S", "C", "{", " ", "{">>,
   <<"@", "M", "I", "S", "C", "{", "k", "{">>,
   <<"@", "M", "I", "S", "C", "{", "k", ",", " ", "=">>,
   <<"@", "M", "I", "S", "C", "{", "k", ",", " ", "f", "1">>,
   <<"@", "M", "I", "S", "C", "{", "k", ",", " ", "f", " ", "g">>,
   <<"@", "S", "T", "R", "I", "N", "G", "{", "a", " ", "=", " ", "=">>,
   <<"@", "S", "T", "R", "I", "N", "G", "{", "a", " ", "=", " ", "b", "\"">>,
   <<"@", "S", "T", "R", "I", "N", "G", "{", "a", " ", "=", " ", "b", "}",
     " ", "%", " ", "c", "\n", " ", "@">>,
   <<"@", "S", "T", "R", "I", "N", "G", "{", "a", " ", "=", " ", "{", "b",
     "}", "}", " ", "@", "S", "T", "R", "I", "N", "G", "{", "c", " ", "=",
     " ", "\"", "x", "\"", " ", "#", " ", "a", " ", "#", " ", "{", "y",
     "}", ",", " ", "2", " ", "d", " ", "=", " ", "c", " ", ",", " ", "e",
     " ", "=", " ", ",", "}", " ", "%", " ", "e", "n", "d">>}

\* Texts with each kind of character after a value that has closed.
\*   @STRING{a = {b} %
\*   @STRING{a = {b}{
\*   @STRING{a = "b" "
\*   @STRING{a = "b"=
\*   @STRING{a = {b} @
\*   @STRING{a = {b}\n2
\*   @MISC{k, a = b x
\*   @STRING{a = "b".
\*   @COMMENT{ {x} } % c
AfterValue ==
  {<<"@", "S", "T", "R", "I", "N", "G", "{", "a", " ", "=", " ", "{", "b",
     "}", " ", "%">>,
   <<"@", "S", "T", "R", "I", "N", "G", "{", "a", " ", "=", " ", "{", "b",
     "}", "{">>,
   <<"@", "S", "T", "R", "I", "N", "G", "{", "a", " ", "=", " ", "\"",
     "b", "\"", " ", "\"">>,
   <<"@", "S", "T", "R", "I", "N", "G", "{", "a", " ", "=", " ", "\"",
     "b", "\"", "=">>,
   <<"@", "S", "T", "R", "I", "N", "G", "{", "a", " ", "=", " ", "{", "b",
     "}", " ", "@">>,
   <<"@", "S", "T", "R", "I", "N", "G", "{", "a", " ", "=", " ", "{", "b",
     "}", "\n", "2">>,
   <<"@", "M", "I", "S", "C", "{", "k", ",", " ", "a", " ", "=", " ", "b",
     " ", "x">>,
   <<"@", "S", "T", "R", "I", "N", "G", "{", "a", " ", "=", " ", "\"",
     "b", "\"", ".">>,
   <<"@", "C", "O", "M", "M", "E", "N", "T", "{", " ", "{", "x", "}", " ",
     "}", " ", "%", " ", "c">>}

\* Texts with @COMMENT records, and texts with special characters in an
\* undelimited value.
\*   @STRING{a = {x}} @COMMENT{ @a, b = "c {d} # e} @STRING{b = a,}
\*   @COMMENT {a{b}c}@COMMENT{}@comment{ % } 
\*   @STRING{a = b=c,}
\*   @STRING{a = b@c#d ,}
\*   @STRING{a = b},}
\*   @STRING{a = b{c},}
\*   @STRING{a = b{c}d
Specials ==
  {<<"@", "S", "T", "R", "I", "N", "G", "{", "a", " ", "=", " ", "{", "x",
     "}", "}", " ", "@", "C", "O", "M", "M", "E", "N", "T", "{", " ", "@",
     "a", ",", " ", "b", " ", "=", " ", "\"", "c", " ", "{", "d", "}",
     " ", "#", " ", "e", "}", " ", "@", "S", "T", "R", "I", "N", "G", "{",
     "b", " ", "=", " ", "a", ",", "}">>,
   <<"@", "C", "O", "M", "M", "E", "N", "T", " ", "{", "a", "{", "b", "}",
     "c", "}", "@", "C", "O", "M", "M", "E", "N", "T", "{", "}", "@", "c",
     "o", "m", "m", "e", "n", "t", "{", " ", "%", " ", "}", " ">>,
   <<"@", "S", "T", "R", "I", "N", "G", "{", "a", " ", "=", " ", "b", "=",
     "c", ",", "}">>,
   <<"@", "S", "T", "R", "I", "N", "G", "{", "a", " ", "=", " ", "b", "@",
     "c", "#", "d", " ", ",", "}">>,
   <<"@", "S", "T", "R", "I", "N", "G", "{", "a", " ", "=", " ", "b", "}",
     ",", "}">>,
   <<"@", "S", "T", "R", "I", "N", "G", "{", "a", " ", "=", " ", "b", "{",
     "c", "}", ",", "}">>,
   <<"@", "S", "T", "R", "I", "N", "G", "{", "a", " ", "=", " ", "b", "{",
     "c", "}", "d">>}

\* The entries written with write_bib and read back: a MiscEntry, a
\* BookEntry and a ManualEntry named k1, without items, with a title with
\* braces in it, with a year, and with both.
\* A text with a value of three parts, and a text with a # before a comma:
\*   @STRING{a = {b}} @STRING{c = "x" # a # {y},
\*   @STRING{c = "x" # ,}
C32Input ==
  <<"@", "S", "T", "R", "I", "N", "G", "{", "a", " ", "=", " ", "{", "b",
    "}", "}", " ", "@", "S", "T", "R", "I", "N", "G", "{", "c", " ", "=",
    " ", "\"", "x", "\"", " ", "#", " ", "a", " ", "#", " ", "{", "y", "}",
    ",">>

C32Dangling ==
  <<"@", "S", "T", "R", "I", "N", "G", "{", "c", " ", "=", " ", "\"", "x",
    "\"", " ", "#", " ", ",", "}">>

\* A text with line comments, and with % in braces and in quotes:
\*   @STRING{a = {b}} % c {"\n@STRING%x\n{d = {%}, e = "%"}
C35Input ==
  <<"@", "S", "T", "R", "I", "N", "G", "{", "a", " ", "=", " ", "{", "b",
    "}", "}", " ", "%", " ", "c", " ", "{", "\"", "\n", "@", "S", "T", "R",
    "I", "N", "G", "%", "x", "\n", "{", "d", " ", "=", " ", "{", "%", "}",
    ",", " ", "e", " ", "=", " ", "\"", "%", "\"", "}">>

\* A text with the name of a macro in braces, in quotes and bare:
\*   @STRING{a = {b}} @STRING{c = {a}, d = "a", e = a ,}
C40Input ==
  <<"@", "S", "T", "R", "I", "N", "G", "{", "a", " ", "=", " ", "{", "b",
    "}", "}", " ", "@", "S", "T", "R", "I", "N", "G", "{", "c", " ", "=",
    " ", "{", "a", "}", ",", " ", "d", " ", "=", " ", "\"", "a", "\"", ",",
    " ", "e", " ", "=", " ", "a", " ", ",", "}">>

\* The text of the scenario of a book:
\*   @BOOK{b1, author={Jane Doe}, title={T}, publisher={P}, year=1999, address={X}}
C24Input ==
  <<"@", "B", "O", "O", "K", "{", "b", "1", ",", " ", "a", "u", "t", "h",
    "o", "r", "=", "{", "J", "a", "n", "e", " ", "D", "o", "e", "}", ",",
    " ", "t", "i", "t", "l", "e", "=", "{", "T", "}", ",", " ", "p", "u",
    "b", "l", "i", "s", "h", "e", "r", "=", "{", "P", "}", ",", " ", "y",
    "e", "a", "r", "=", "1", "9", "9", "9", ",", " ", "a", "d", "d", "r",
    "e", "s", "s", "=", "{", "X", "}", "}">>

TitleItem ==
  <<<<"t", "i", "t", "l", "e">>,
    [type |-> "str", v |-> <<"A", " ", "{", "B", "}", " ", "c">>]>>

YearItem == <<<<"y", "e", "a", "r">>, [type |-> "int", v |-> 1999]>>

BibItems == {<<>>, <<TitleItem>>, <<YearItem>>, <<TitleItem, YearItem>>}

BibEntries ==
  {[tag |-> tag, name |-> <<"k", "1">>, bib |-> bib] :
     tag \in {<<"@", "M", "I", "S", "C">>,
              <<"@", "B", "O", "O", "K">>,
              <<"@", "M", "A", "N", "U", "A", "L">>},
     bib \in BibItems}

Texts ==
  {C17Input, C18Input, C24Input, C32Input, C32Dangling, C35Input, C40Input}
  \cup {write_bib(e) : e \in BibEntries}
  \cup Others
  \cup AfterValue
  \cup Specials
  \cup {p \o h \o v \o e : p \in Prologues, h \in Heads, v \in Values, e \in Ends}

\* the characters that can follow data in a text
NextChars(data) ==
  {text[Len(data) + 1] :
     text \in {x \in Texts : /\ Len(x) > Len(data)
                             /\ SubSeq(x, 1, Len(data)) = data}}

\* one turn of "for char in data": the file read is a text or the beginning
\* of a text, and data is the part of it read so far
ReadChar ==
  /\ loadbib.exc = ""
  /\ ~loadbib.returned
  /\ \E char \in NextChars(loadbib.data) : loadbib' = loadbib_char(loadbib, char)
  /\ UNCHANGED <<kind, name, children, entries, master, iflag, sorted, last, steps,
               authorlist, thisentry, compared>>

\* the file ends after data: the code that follows the loop
EndOfFile ==
  /\ loadbib.exc = ""
  /\ ~loadbib.returned
  /\ loadbib' = loadbib_eof(loadbib)
  /\ UNCHANGED <<kind, name, children, entries, master, iflag, sorted, last, steps,
               authorlist, thisentry, compared>>

\* SpecBib: loadbib reads a file.  loadbib creates the MasterCollection it
\* returns, the other objects are not touched.
InitBib ==
  /\ kind = [n \in Node |-> "Free"]
  /\ name = InitName
  /\ children = [n \in Node |-> <<>>]
  /\ entries = [n \in Node |-> <<>>]
  /\ master = [n \in Node |-> None]
  /\ iflag = [n \in Node |-> FALSE]
  /\ sorted = [n \in Node |-> <<>>]
  /\ loadbib = LoadbibInit
  /\ authorlist = StrParseInit(<<>>)
  /\ thisentry = NoEntry
  /\ compared = NoComparison
  /\ last = NoCall
  /\ steps = 0

NextBib ==
  \/ ReadChar
  \/ EndOfFile

SpecBib == InitBib /\ [][NextBib]_vars

\* ------------------------------------------ SpecAuthor: AuthorList(raw)

\* Albert {von Fuddyduddy} and Plot {de Vice}
C25Input ==
  <<"A", "l", "b", "e", "r", "t", " ", "{", "v", "o", "n", " ", "F", "u",
    "d", "d", "y", "d", "u", "d", "d", "y", "}", " ", "a", "n", "d", " ",
    "P", "l", "o", "t", " ", "{", "d", "e", " ", "V", "i", "c", "e", "}">>

\* Albert von Fuddyduddy and Plot de Vice
C26Input ==
  <<"A", "l", "b", "e", "r", "t", " ", "v", "o", "n", " ", "F", "u", "d",
    "d", "y", "d", "u", "d", "d", "y", " ", "a", "n", "d", " ", "P", "l",
    "o", "t", " ", "d", "e", " ", "V", "i", "c", "e">>

MaxTokens == 4

AuthorTokens ==
  {<<"a">>,
   <<" ">>,
   <<" ", "a", "n", "d", " ">>,
   <<"a", "n", "d">>,
   <<"{">>,
   <<"}">>,
   <<"\"">>,
   <<"'">>}

RECURSIVE TokenStrings(_)
TokenStrings(n) ==
  IF n = 0 THEN {<<>>}
  ELSE LET shorter == TokenStrings(n - 1)
       IN shorter \cup {x \o token : x \in shorter, token \in AuthorTokens}

AuthorTexts ==
  {C25Input, C26Input,
   <<"a", " ", "\"", "b", " ", "c", "\"", " ", "d">>,
   <<"a", " ", "'", "b", " ", "c", "'", " ", "d">>,
   <<"{", "a", " ", "a", "n", "d", " ", "b", "}", " ", "c">>,
   <<"\"", "{", "\"", " ", "b">>,
   <<"a", " ", "{", "b", " ", "\"", "c", "}", " ", "d">>,
   <<"O", "'", "B", "r", "i", "e", "n", " ", "a", "n", "d", " ", "B", " ", "C">>,
   <<"a", " ", "a", "n", "d", " ", " ", "b">>,
   <<"a", " ", "'", "b", " ", "{", "c", "'", " ", "d", "}", " ", "e">>}
  \cup TokenStrings(MaxTokens)

\* one turn of the loop of _str_parse
StrParseChar ==
  /\ authorlist.exc = ""
  /\ ~authorlist.returned
  /\ authorlist.jj + 1 < Len(authorlist.raw)
  /\ authorlist' = str_parse_char(authorlist)
  /\ UNCHANGED <<kind, name, children, entries, master, iflag, sorted, last, steps,
               loadbib, thisentry, compared>>

\* the loop is over
StrParseEnd ==
  /\ authorlist.exc = ""
  /\ ~authorlist.returned
  /\ authorlist.jj + 1 = Len(authorlist.raw)
  /\ authorlist' = str_parse_end(authorlist)
  /\ UNCHANGED <<kind, name, children, entries, master, iflag, sorted, last, steps,
               loadbib, thisentry, compared>>

InitAuthor ==
  /\ kind = [n \in Node |-> "Free"]
  /\ name = InitName
  /\ children = [n \in Node |-> <<>>]
  /\ entries = [n \in Node |-> <<>>]
  /\ master = [n \in Node |-> None]
  /\ iflag = [n \in Node |-> FALSE]
  /\ sorted = [n \in Node |-> <<>>]
  /\ loadbib = LoadbibInit
  /\ \E raw \in AuthorTexts : authorlist = StrParseInit(raw)
  /\ thisentry = NoEntry
  /\ compared = NoComparison
  /\ last = NoCall
  /\ steps = 0

NextAuthor ==
  \/ StrParseChar
  \/ StrParseEnd

SpecAuthor == InitAuthor /\ [][NextAuthor]_vars

\* ------------------------------------------------- SpecPost: Entry.post

\* the values an item is given
ItemValues(item) ==
  IF item = "author"
  THEN {StrValue(<<"J", "a", "n", "e", " ", "D", "o", "e">>),
        StrValue(<<"a", "n", "d", " ", "a">>), IntValue(7)}
  ELSE IF item = "year"
  THEN {StrValue(<<"1", "9", "9", "9">>), StrValue(<<"x">>), IntValue(1999)}
  ELSE {StrValue(<<"T">>)}

\* the dicts with some of the items as keys
RECURSIVE Bibs(_)
Bibs(items) ==
  IF items = {} THEN {<<>>}
  ELSE LET item == CHOOSE x \in items : TRUE
           rest == Bibs(items \ {item})
       IN rest \cup {(item :> value) @@ bib : value \in ItemValues(item), bib \in rest}

ClassItems(class) ==
  EntryClass[class].mandatory \cup EntryClass[class].optional \cup {"note"}

\* the attributes an entry is given besides its items
Attributes ==
  {[sourcefile |-> StrValue(<<>>), docfile |-> StrValue(<<>>), doc |-> StrValue(<<>>),
    collections |-> ListValue(<<>>)],
   [sourcefile |-> StrValue(<<"f">>), docfile |-> StrValue(<<"f">>), doc |-> StrValue(<<"T">>),
    collections |-> ListValue(<<StrValue(<<"T">>)>>)],
   [sourcefile |-> StrValue(<<>>), docfile |-> StrValue(<<>>), doc |-> StrValue(<<>>),
    collections |-> StrValue(<<"T">>)],
   [sourcefile |-> StrValue(<<>>), docfile |-> StrValue(<<>>), doc |-> StrValue(<<>>),
    collections |-> ListValue(<<StrValue(<<"T">>), IntValue(1)>>)],
   [sourcefile |-> StrValue(<<>>), docfile |-> IntValue(1), doc |-> StrValue(<<>>),
    collections |-> ListValue(<<>>)],
   [sourcefile |-> StrValue(<<>>), docfile |-> StrValue(<<>>), doc |-> IntValue(1),
    collections |-> ListValue(<<>>)]}

\* newentry.post(fatal, verbose, strict)
Post ==
  /\ \E fatal, verbose, strict \in BOOLEAN :
       thisentry' = post(thisentry, fatal, verbose, strict)
  /\ UNCHANGED <<kind, name, children, entries, master, iflag, sorted, last, steps,
               loadbib, authorlist, compared>>

\* an entry of a class whose attributes and items have been assigned
InitPost ==
  /\ kind = [n \in Node |-> "Free"]
  /\ name = InitName
  /\ children = [n \in Node |-> <<>>]
  /\ entries = [n \in Node |-> <<>>]
  /\ master = [n \in Node |-> None]
  /\ iflag = [n \in Node |-> FALSE]
  /\ sorted = [n \in Node |-> <<>>]
  /\ loadbib = LoadbibInit
  /\ authorlist = StrParseInit(<<>>)
  /\ \E class \in DOMAIN EntryClass, a \in Attributes :
       \E bib \in Bibs(ClassItems(class)) :
         thisentry = [NewEntry(class) EXCEPT !.bib = bib,
                                             !.sourcefile = a.sourcefile,
                                             !.docfile = a.docfile,
                                             !.doc = a.doc,
                                             !.collections = a.collections]
  /\ compared = NoComparison
  /\ last = NoCall
  /\ steps = 0

NextPost == Post

SpecPost == InitPost /\ [][NextPost]_vars

\* ---------------------------------- SpecOrder: comparisons of AuthorLists
\* The authors of the lists that are compared: with and without first
\* names, the same last name in different spellings, an escaped letter
\* before the initial, a first name without a letter, and an author without
\* any name part (AuthorList([[]])).
Authors ==
  {<<<<"B">>, <<"L", "i">>>>,
   <<<<"A">>, <<"L", "i">>>>,
   <<<<"a">>, <<"W", "u">>>>,
   <<<<"L", "i">>>>,
   <<<<"\\", "B", "a">>, <<"l", "-", "I">>>>,
   <<<<"1">>, <<"W", "u">>>>,
   <<>>}

\* the lists of up to MaxAuthors authors
AuthorLists == UNION {[1 .. n -> Authors] : n \in 0 .. MaxAuthors}

\* self < b, and b < self
Less ==
  \E d \in {"ab", "ba"} :
    /\ compared.lt[d] = ""
    /\ compared' =
         [compared EXCEPT !.lt[d] =
            IF d = "ab" THEN AuthorList_lt(compared.a, compared.b)
            ELSE AuthorList_lt(compared.b, compared.a)]
    /\ UNCHANGED <<kind, name, children, entries, master, iflag, sorted, last,
                   steps, loadbib, authorlist, thisentry>>

\* self > b, and b > self
Greater ==
  \E d \in {"ab", "ba"} :
    /\ compared.gt[d] = ""
    /\ compared' =
         [compared EXCEPT !.gt[d] =
            IF d = "ab" THEN AuthorList_gt(compared.a, compared.b)
            ELSE AuthorList_gt(compared.b, compared.a)]
    /\ UNCHANGED <<kind, name, children, entries, master, iflag, sorted, last,
                   steps, loadbib, authorlist, thisentry>>

\* self == b, and b == self
Equal ==
  \E d \in {"ab", "ba"} :
    /\ compared.eq[d] = ""
    /\ compared' =
         [compared EXCEPT !.eq[d] =
            IF d = "ab" THEN AuthorList_eq(compared.a, compared.b)
            ELSE AuthorList_eq(compared.b, compared.a)]
    /\ UNCHANGED <<kind, name, children, entries, master, iflag, sorted, last,
                   steps, loadbib, authorlist, thisentry>>

\* two author lists
InitOrder ==
  /\ kind = [n \in Node |-> "Free"]
  /\ name = InitName
  /\ children = [n \in Node |-> <<>>]
  /\ entries = [n \in Node |-> <<>>]
  /\ master = [n \in Node |-> None]
  /\ iflag = [n \in Node |-> FALSE]
  /\ sorted = [n \in Node |-> <<>>]
  /\ loadbib = LoadbibInit
  /\ authorlist = StrParseInit(<<>>)
  /\ thisentry = NoEntry
  /\ \E a, b \in AuthorLists : compared = [NoComparison EXCEPT !.a = a, !.b = b]
  /\ last = NoCall
  /\ steps = 0

NextOrder ==
  \/ Less
  \/ Greater
  \/ Equal

SpecOrder == InitOrder /\ [][NextOrder]_vars

\* ------------------------------------------------- SpecIter: the iterator
\* The graphs the iterator is applied to: every ordered tree over the nodes
\* 1 .. IterNodes (node 1 the root, nodes numbered level by level, so the
\* parent of a node is a smaller node and parents never decrease), with at
\* most one more child link appended to some node.  The extra link makes a
\* node shared by two parents, or closes a cycle.  Each of these graphs is
\* built by addchild() calls on SubCollections that have no master: the
\* addchild() that closes a cycle stores the link before it raises, and a
\* depth-first iteration from a marked node clears the markers it left.
IterNode == 1 .. IterNodes

TreeParents ==
  {par \in [2 .. IterNodes -> 1 .. (IterNodes - 1)] :
     \A i \in 2 .. IterNodes :
       /\ par[i] < i
       /\ (i > 2 => par[i - 1] <= par[i])}

RECURSIVE Ascending(_)
\* the members of a set of numbers, smallest first
Ascending(S) ==
  IF S = {} THEN <<>>
  ELSE LET x == CHOOSE x \in S : \A y \in S : x <= y
       IN <<x>> \o Ascending(S \ {x})

TreeChildren(par) ==
  [n \in Node |-> IF n \in IterNode
                  THEN Ascending({i \in 2 .. IterNodes : par[i] = n})
                  ELSE <<>>]

ExtraLinks == {<<None, None>>} \cup (IterNode \X IterNode)

WithLink(ch, link) ==
  IF link[1] = None \/ link[2] \in Range(ch[link[1]]) THEN ch
  ELSE [ch EXCEPT ![link[1]] = Append(@, link[2])]

InitIter ==
  /\ kind = [n \in Node |-> IF n \in IterNode THEN "SubCollection" ELSE "Free"]
  /\ name = [n \in Node |-> IF n \in IterNode THEN ToString(n) ELSE ""]
  /\ \E par \in TreeParents, link \in ExtraLinks :
       children = WithLink(TreeChildren(par), link)
  /\ entries = [n \in Node |-> IF n = IterNodes THEN <<1>> ELSE <<>>]
  /\ master = [n \in Node |-> None]
  /\ iflag = [n \in Node |-> FALSE]
  /\ sorted = [n \in Node |-> <<>>]
  /\ loadbib = LoadbibInit
  /\ authorlist = StrParseInit(<<>>)
  /\ thisentry = NoEntry
  /\ compared = NoComparison
  /\ last = NoCall
  /\ steps = 0

\* one call is applied to each graph
FirstCall ==
  /\ last = NoCall
  /\ UNCHANGED steps

NextIter ==
  \/ \E self \in Existing, depthfirst, rself \in BOOLEAN :
       FirstCall /\ Collections(self, depthfirst, rself)
  \/ \E self \in Existing : FirstCall /\ Get(self, 1)

SpecIter == InitIter /\ [][NextIter]_vars

\* ------------------------------------------------ notions the claims use
RECURSIVE Closure(_, _)
\* the nodes reachable from the nodes of S through child links, S included
Closure(ch, S) ==
  LET more == S \cup UNION {Range(ch[n]) : n \in S}
  IN IF more = S THEN S ELSE Closure(ch, more)

Reach(ch, n) == Closure(ch, {n})

\* the nodes reachable from n through at least one child link
Descendants(ch, n) == Closure(ch, Range(ch[n]))

\* a cycle can be reached from n
Cyclic(ch, n) == \E k \in Reach(ch, n) : k \in Descendants(ch, k)

\* the entries directly owned by the nodes of S
Owned(en, S) == UNION {Range(en[n]) : n \in S}

RECURSIVE Level(_, _, _, _)
\* reachability depth of node k from the nodes of S, S being depth d
Level(ch, S, k, d) ==
  IF k \in S THEN d
  ELSE Level(ch, UNION {Range(ch[n]) : n \in S}, k, d + 1)

NoFlags == \A n \in Node : ~iflag[n]

\* the schedule holds exactly the nodes of S, each once
ExactlyOnce(schedule, S) ==
  /\ Len(schedule) = Cardinality(S)
  /\ Range(schedule) = S

\* the graph below n is a tree: no cycle, and no node with two parents
Tree(ch, n) ==
  /\ ~Cyclic(ch, n)
  /\ \A k \in Descendants(ch, n) :
       Cardinality({p \in Reach(ch, n) : k \in Range(ch[p])}) = 1

MasterNodes == {m \in Node : kind[m] = "Master"}

\* ------------------------------------------------------------- the claims

\* C1: every entry directly owned by a collection reachable from a
\* MasterCollection through child links is registered, as the same object,
\* in the flat entry map of that MasterCollection.
C1_MasterContainsReachable ==
  \A m \in MasterNodes :
    Owned(entries, Descendants(children, m)) \subseteq Range(entries[m])

\* C2 (after add, addchild and merge alone): no entry reachable from a
\* direct child of a MasterCollection is missing from its flat entry map.
C2_NoReachableEntryMissing ==
  \A m \in MasterNodes : \A c \in Range(children[m]) :
    \A k \in Reach(children, c) : \A e \in Range(entries[k]) :
      e \in Range(entries[m])

\* C3: every collection reachable from a MasterCollection has that
\* MasterCollection as its master.
C3_OneMasterPerNode ==
  \A m \in MasterNodes : \A k \in Descendants(children, m) : master[k] = m

\* C4: when addchild raises on a conflict it detected, no children dict, no
\* master reference and no entry map has changed.
C4_AddchildAllOrNothing ==
  [][(last'.op = "addchild" /\ last'.exc = "Exception")
       => UNCHANGED <<children, master, entries>>]_vars

\* the entry is not the one the collection's master (or, without a master,
\* the collection and its descendants) holds under the entry's name
Contradicts(self, e) ==
  IF master[self] # None
  THEN \E o \in Range(entries[master[self]]) : EntryName[o] = EntryName[e] /\ o # e
  ELSE \E o \in Owned(entries, Reach(children, self)) :
         EntryName[o] = EntryName[e] /\ o # e

\* C5: add raises on an entry that contradicts an existing one and then
\* leaves the collection's and the master's entry maps alone; adding the
\* entry a collection (and its master) already holds succeeds and leaves
\* both maps with the same contents.
C5_AddChecksName ==
  [][last'.op = "add" =>
       LET self == last'.self
           e == last'.arg
           m == IF master[self] # None THEN master[self] ELSE self
           held == /\ e \in Range(entries[self])
                   /\ e \in Range(entries[m])
       IN /\ Contradicts(self, e)
             => /\ last'.exc # ""
                /\ entries'[self] = entries[self]
                /\ entries'[m] = entries[m]
          /\ (held /\ ~Contradicts(self, e))
             => /\ last'.exc = ""
                /\ Range(entries'[self]) = Range(entries[self])
                /\ Range(entries'[m]) = Range(entries[m])]_vars

\* C6: on a graph with a cycle the shallow-first iterator and the deep get()
\* complete, and the schedule holds every reachable collection exactly once.
C6_CycleSafe ==
  (/\ last.op \in {"collections", "get"}
   /\ Cyclic(children, last.self)
   /\ (last.op = "collections" => ~last.opts[1] /\ last.opts[2]))
  => /\ last.exc = ""
     /\ last.op = "collections"
          => ExactlyOnce(last.schedule, Reach(children, last.self))

\* C7: on a graph without a cycle the iterator schedules every collection
\* reachable from the start exactly once (the start left out when rself is
\* False), in either order, and the other order schedules the same set.
C7_EachNodeOnce ==
  (last.op = "collections" /\ ~Cyclic(children, last.self))
  => /\ last.exc = ""
     /\ ExactlyOnce(last.schedule,
                    Reach(children, last.self)
                      \ (IF last.opts[2] THEN {} ELSE {last.self}))
     /\ Range(last.schedule)
          = Range(collections(Graph, last.self, ~last.opts[1], last.opts[2]).schedule)

\* reached: a schedule over a graph in which a collection has two parents,
\* built without the start collection
C7_Witness ==
  /\ last.op = "collections"
  /\ ~Cyclic(children, last.self)
  /\ ~last.opts[2]
  /\ Len(last.schedule) >= 3
  /\ \E k \in Descendants(children, last.self) :
       Cardinality({p \in Reach(children, last.self) : k \in Range(children[p])}) = 2

\* C8: in the shallow-first schedule of a tree no collection comes before a
\* collection of smaller depth.
C8_ShallowFirstOrder ==
  (/\ last.op = "collections"
   /\ ~last.opts[1]
   /\ last.exc = ""
   /\ Tree(children, last.self))
  => \A i, j \in 1 .. Len(last.schedule) :
       i < j => Level(children, {last.self}, last.schedule[i], 0)
                  <= Level(children, {last.self}, last.schedule[j], 0)

\* C9: between calls no collection has its _iflag set, and the marker count
\* check of CollectionIterator does not fail.
C9_MarkersClear ==
  /\ NoFlags
  /\ last.op = "collections" => last.exc # "Exception"

\* C10: a merge(mc, name) that returns has put the union of the two flat
\* entry maps into the receiver's master, has given the receiver a child of
\* that name whose reachable collections all have the receiver's master, and
\* has left mc without entries and without children.
C10_MergeImports ==
  [][(last'.op = "merge" /\ last'.exc = "") =>
       LET self == last'.self
           mc == last'.arg
           A == master[self]
           nc == ChildrenGet(Graph', children'[self], last'.name)
       IN /\ Range(entries'[A]) = Range(entries[A]) \cup Range(entries[mc])
          /\ nc # None
          /\ \A k \in Reach(children', nc) : master'[k] = A
          /\ entries'[mc] = <<>>
          /\ children'[mc] = <<>>]_vars

\* reached: a merge that imported entries and a collection with its entry
C10_Witness ==
  /\ last.op = "merge"
  /\ last.exc = ""
  /\ \E nc \in Range(children[last.self]) :
       /\ name[nc] = last.name
       /\ entries[nc] # <<>>
       /\ \E c \in Range(children[nc]) : entries[c] # <<>> /\ master[c] = master[last.self]

\* the names of a set of collections
Names(S) == {name[k] : k \in S}

\* two different entry objects, one in each flat map, have the same name
EntryConflict(m, mc) ==
  \E e \in Range(entries[mc]), o \in Range(entries[m]) :
    EntryName[e] = EntryName[o] /\ e # o

\* merge(mc, nm) on self is a call the conflict tests of merge are reached by
MergeCall(self, mc) ==
  /\ kind[mc] = "Master"
  /\ master[self] # None
  /\ master[self] # mc

\* nm is a collection name in one of the graphs, a collection name is in both
\* graphs, or the Masters hold different entries under one name
MergeCollision(self, mc, nm) ==
  LET m == master[self]
  IN \/ nm \in Names(Reach(children, m) \cup Reach(children, mc))
     \/ Names(Descendants(children, m)) \cap Names(Descendants(children, mc)) # {}
     \/ EntryConflict(m, mc)

\* C11: a merge with a collision (the name taken in either graph, a
\* collection name in both graphs, or an entry name with different objects
\* in the two Masters) raises and leaves the child links, the entry maps and
\* the masters as they were; a merge without a collision whose Masters share
\* an identical entry returns.
C11_MergeRejects ==
  [][(last'.op = "merge" /\ MergeCall(last'.self, last'.arg)) =>
       LET self == last'.self
           mc == last'.arg
       IN /\ MergeCollision(self, mc, last'.name)
             => /\ last'.exc # ""
                /\ UNCHANGED <<kind, name, children, entries, master>>
          /\ (/\ ~MergeCollision(self, mc, last'.name)
              /\ Range(entries[mc]) \cap Range(entries[master[self]]) # {})
             => last'.exc = ""]_vars

\* reached: a merge rejected for two different entries of one name alone
C11_Witness ==
  /\ last.op = "merge"
  /\ last.exc = "Exception"
  /\ MergeCall(last.self, last.arg)
  /\ EntryConflict(master[last.self], last.arg)
  /\ last.name \notin Names(Reach(children, master[last.self]) \cup Reach(children, last.arg))

\* the collections reachable from self whose direct map holds the target of
\* a remove: the entry itself, or any entry of its name when the name is given
Holding(self, e, byname) ==
  {k \in Reach(children, self) :
     \E o \in Range(entries[k]) :
       IF byname THEN EntryName[o] = EntryName[e] ELSE o = e}

\* C12: remove(target, recurse=True), target an entry name or an Entry,
\* returns the number of reachable direct maps that held the entry and
\* leaves none of them holding it; when none held it, it returns 0 with
\* fatal=False and raises with fatal=True.
C12_RemoveRecursive ==
  [][(last'.op = "remove" /\ last'.opts[2]) =>
       LET self == last'.self
           e == last'.arg
           byname == last'.opts[1]
           fatal == last'.opts[3]
           held == Holding(self, e, byname)
       IN IF held = {} /\ fatal
          THEN last'.exc # ""
          ELSE /\ last'.exc = ""
               /\ last'.value = Cardinality(held)
               /\ \A k \in Reach(children, self) :
                    \A o \in Range(entries'[k]) :
                      IF byname THEN EntryName[o] # EntryName[e] ELSE o # e]_vars

\* the entries a fresh list(n) holds: the flat map of a MasterCollection, the
\* direct maps of the collections within reach of any other collection
Listed(n) ==
  IF kind[n] = "Master" THEN Range(entries[n])
  ELSE Owned(entries, Reach(children, n))

\* C13: a default sort that returns holds exactly the entries then within
\* reach of the collection, whatever add, remove, addchild, removechild or
\* merge was called since the list was stored; and a default sort that
\* directly follows a sort of the same collection returns the same list.
C13_SortCache ==
  [][(last'.op = "sort" /\ last'.opts = <<FALSE, TRUE, FALSE>> /\ last'.exc = "") =>
       /\ Range(last'.schedule) = Listed(last'.self)
       /\ (/\ last.op = "sort"
           /\ last.self = last'.self
           /\ last.exc = "")
          => last'.schedule = last.schedule]_vars

\* C14: sort returns a list for every collection: the entries that have the
\* item in ascending order (descending with ascending=False), followed,
\* unless omit=True, by the entries without the item.
C14_SortOrder ==
  last.op = "sort" =>
    LET have == {e \in Range(entries[last.self]) : EntryYear[e] # None}
        lack == Range(entries[last.self]) \ have
        nh == Cardinality(have)
        v == last.schedule
        ascending == last.opts[2]
        omit == last.opts[3]
    IN /\ last.exc = ""
       /\ Len(v) = (IF omit THEN nh ELSE nh + Cardinality(lack))
       /\ {v[i] : i \in 1 .. nh} = have
       /\ \A i, j \in 1 .. nh :
            i < j => IF ascending THEN EntryYear[v[i]] <= EntryYear[v[j]]
                     ELSE EntryYear[v[i]] >= EntryYear[v[j]]
       /\ ~omit => {v[i] : i \in (nh + 1) .. Len(v)} = lack

\* the fingerprints shared by two or more entries listed from collection n
RepeatedFingerprints(n) ==
  {f \in {dup_iter(e).fp : e \in Listed(n)} :
     Cardinality({e \in Listed(n) : dup_iter(e).fp = f}) >= 2}

\* C15: duplicates returns one group for each fingerprint shared by two or
\* more entries of the collection, in increasing order of the fingerprints;
\* a group holds exactly the entries that have its fingerprint, as Entry
\* objects and each of them once.
C15_DuplicateGroups ==
  last.op = "duplicates" =>
    LET v == last.schedule
    IN /\ last.exc = ""
       /\ Len(v) = Cardinality(RepeatedFingerprints(last.self))
       /\ \A k \in 1 .. Len(v) :
            /\ \A i \in 1 .. Len(v[k]) : v[k][i].class = "Entry"
            /\ \E f \in RepeatedFingerprints(last.self) :
                 /\ {v[k][i].id : i \in 1 .. Len(v[k])}
                      = {e \in Listed(last.self) : dup_iter(e).fp = f}
                 /\ Len(v[k]) = Cardinality({e \in Listed(last.self) : dup_iter(e).fp = f})
       /\ \A k \in 1 .. (Len(v) - 1) :
            StrLess(dup_iter(v[k][1].id).fp, dup_iter(v[k + 1][1].id).fp)

\* ------------------------------------------------------ loadbib: the claims
IsPrefix(a, b) == Len(a) <= Len(b) /\ SubSeq(b, 1, Len(a)) = a

\* loadbib has just read the character char
Reads(char) ==
  /\ loadbib.exc = ""
  /\ ~loadbib.returned
  /\ loadbib'.data = Append(loadbib.data, char)

\* loadbib has just found the end of the file
FileEnds ==
  /\ loadbib.exc = ""
  /\ ~loadbib.returned
  /\ loadbib'.data = loadbib.data
  /\ loadbib' # loadbib

\* the text of the item named item that frame f has stored: macros are in
\* string, the items of the entry being read in bib
ItemStored(f, type, item, text) ==
  IF type = AtString
  THEN DictHas(f.string, item) /\ DictGet(f.string, item) = text
  ELSE DictHas(f.bib, item) /\ DictGet(f.bib, item) = text

\* the braces of text w are balanced
RECURSIVE BraceDepth(_, _)
BraceDepth(w, d) ==
  IF w = <<>> \/ d < 0 THEN d
  ELSE BraceDepth(Tail(w), IF Head(w) = "{" THEN d + 1
                           ELSE IF Head(w) = "}" THEN d - 1 ELSE d)

Balanced(w) == BraceDepth(w, 0) = 0

\* C16: when an undelimited value of a record of a known type ends (at a
\* comma, at whitespace or at the closing brace of the record), the text
\* the item gains is the value of the macro of that name as defined last
\* before this place, or the token itself when there is no such macro; at
\* a comma or closing brace the item is stored with that text.
C16_MacroSubstitution ==
  [][\A char \in {",", " ", "\n", "}"} :
       (/\ Reads(char)
        /\ loadbib.state = 9
        /\ ~loadbib.quote
        /\ loadbib.bracket = 1
        /\ loadbib.activetype \in entrytypes \cup {AtString})
       => LET text == loadbib.activedata
                      \o (IF DictHas(loadbib.string, loadbib.word)
                          THEN DictGet(loadbib.string, loadbib.word)
                          ELSE loadbib.word)
          IN /\ loadbib'.exc = ""
             /\ IF isspace(char)
                THEN loadbib'.state = 10 /\ loadbib'.activedata = text
                ELSE ItemStored(loadbib', loadbib.activetype, loadbib.activeitem, text)]_vars

\* C17: loadbib reads the text C17Input without an error; after its last
\* character record k2 is complete with author "M. Author" and year "2020",
\* the scanner is in state 0 with no open bracket, and the end of the file
\* makes loadbib return.
C17_ClosingBraceEndsValue ==
  IsPrefix(loadbib.data, C17Input) =>
    /\ loadbib.exc # "" => (/\ loadbib.exc = "Unexpected end-of-file"
                            /\ loadbib.data # C17Input)
    /\ loadbib.data = C17Input =>
         /\ loadbib.state = 0
         /\ loadbib.bracket = 0
         /\ \E i \in 1 .. Len(loadbib.output) :
              /\ loadbib.output[i].name = <<"k", "2">>
              /\ DictGet(loadbib.output[i].bib, <<"a", "u", "t", "h", "o", "r">>)
                   = <<"M", ".", " ", "A", "u", "t", "h", "o", "r">>
              /\ DictGet(loadbib.output[i].bib, <<"y", "e", "a", "r">>)
                   = <<"2", "0", "2", "0">>

\* the text C18Input up to the character that follows the closed value
C18Rejected == SubSeq(C18Input, 1, 27)

\* C18: after a value has closed (state 10, one open bracket) a character
\* other than whitespace, a comma, a closing brace or # raises an error;
\* loadbib raises on the text C18Input and no entry is produced.
C18_PostValueError ==
  [][/\ \A char \in {loadbib'.data[i] : i \in 1 .. Len(loadbib'.data)} :
          (/\ Reads(char)
           /\ loadbib.state = 10
           /\ loadbib.bracket = 1
           /\ ~loadbib.quote
           /\ ~isspace(char)
           /\ char \notin {",", "}", "#"})
          => loadbib'.exc # "" /\ loadbib'.output = <<>>
     /\ IsPrefix(C18Rejected, loadbib'.data)
          => /\ loadbib'.data = C18Rejected
             /\ loadbib'.exc # ""
             /\ ~loadbib'.returned
             /\ loadbib'.output = <<>>]_vars

C18_Witness ==
  /\ loadbib.data = C18Rejected
  /\ loadbib.state = 10
  /\ loadbib.exc = "unexpected character after item data"

\* C19: a double quote read in a quote-delimited value whose braces are
\* balanced closes the value: the text between the quotes is added to the
\* text of the item, and the scanner is in state 10 with one open bracket.
C19_QuotedBraces ==
  [][(/\ Reads("\"")
      /\ loadbib.state = 9
      /\ loadbib.quote
      /\ Balanced(loadbib.word))
     => /\ loadbib'.exc = ""
        /\ loadbib'.state = 10
        /\ ~loadbib'.quote
        /\ loadbib'.bracket = 1
        /\ loadbib'.activedata = loadbib.activedata \o loadbib.word]_vars

\* C20: at the end of the file loadbib returns if the scanner is in state 0
\* with no open bracket, and raises the unexpected end-of-file error in
\* every other state.
C20_EndOfFile ==
  [][FileEnds =>
       IF loadbib.state = 0 /\ loadbib.bracket = 0
       THEN loadbib'.returned /\ loadbib'.exc = ""
       ELSE ~loadbib'.returned /\ loadbib'.exc = "Unexpected end-of-file"]_vars

C20_Witness ==
  /\ loadbib.exc = "Unexpected end-of-file"
  /\ loadbib.state = 1
  /\ loadbib.bracket = 0
  /\ loadbib.activetype = AtComment

\* the closing brace of the @STRING or @COMMENT record being read is read
RecordCloses ==
  /\ Reads("}")
  /\ ~loadbib.comment
  /\ ~loadbib.quote
  /\ loadbib.bracket = 1
  /\ \/ loadbib.activetype = AtComment /\ loadbib.state = 11
     \/ loadbib.activetype = AtString /\ loadbib.state \in {5, 9, 10}

\* C21: while a @STRING or @COMMENT record is read no entry is added to the
\* result; a @COMMENT record changes no macro and raises no error whatever
\* its text; when the closing brace of either record is read the scanner is
\* in state 0 with no open bracket.
C21_StringAndComment ==
  [][/\ \A char \in {loadbib'.data[i] : i \in 1 .. Len(loadbib'.data)} :
          (/\ Reads(char)
           /\ loadbib.activetype \in {AtString, AtComment}
           /\ loadbib.bracket >= 1)
          => /\ loadbib'.output = loadbib.output
             /\ loadbib.activetype = AtComment
                  => loadbib'.string = loadbib.string /\ loadbib'.exc = ""
     /\ RecordCloses
          => /\ loadbib'.exc = ""
             /\ loadbib'.state = 0
             /\ loadbib'.bracket = 0]_vars

\* the opening braces less the closing braces of text w
RECURSIVE BraceCount(_)
BraceCount(w) ==
  IF w = <<>> THEN 0
  ELSE (IF Head(w) = "{" THEN 1 ELSE IF Head(w) = "}" THEN -1 ELSE 0)
       + BraceCount(Tail(w))

\* the value being read began without a delimiter: every bracket open
\* above, or closed below, the bracket of the record is in the word
BareToken ==
  /\ loadbib.state = 9
  /\ ~loadbib.quote
  /\ loadbib.bracket = 1 + BraceCount(loadbib.word)

\* C22: a character { } " @ # = read in an undelimited value raises an
\* error or ends the value, it is never added to the text of the value; and
\* loadbib does not return on a text (without quotes and comments) in
\* which a closing brace has no opening brace before it.
C22_NoSpecialInBareToken ==
  [][/\ \A char \in {"{", "}", "\"", "@", "#", "="} :
          (Reads(char) /\ BareToken)
          => \/ loadbib'.exc # ""
             \/ loadbib'.state # 9
     /\ (/\ FileEnds
         /\ loadbib'.returned
         /\ \A i \in 1 .. Len(loadbib.data) : loadbib.data[i] \notin {"\"", "%"})
          => BraceDepth(loadbib.data, 0) = 0]_vars

\* C23: loadbib reads the text write_bib wrote for an entry without an
\* error, and after the text the result holds one entry, with the tag and
\* the name of the entry written and for each item the text of its value.
C23_RoundTrip ==
  \A e \in BibEntries :
    IsPrefix(loadbib.data, write_bib(e)) =>
      /\ loadbib.exc # "" => (/\ loadbib.exc = "Unexpected end-of-file"
                              /\ loadbib.data # write_bib(e))
      /\ loadbib.data = write_bib(e) =>
           /\ loadbib.state = 0
           /\ Len(loadbib.output) = 1
           /\ loadbib.output[1].tag = e.tag
           /\ loadbib.output[1].name = e.name
           /\ \A i \in 1 .. Len(e.bib) :
                /\ DictHas(loadbib.output[1].bib, e.bib[i][1])
                /\ DictGet(loadbib.output[1].bib, e.bib[i][1]) = str_value(e.bib[i][2])

\* C24: loadbib reads the text C24Input without an error; after the text
\* the result holds one entry, a book named b1 with the items author,
\* title, publisher, year and address, and the end of the file makes
\* loadbib return.
C24_BookScenario ==
  IsPrefix(loadbib.data, C24Input) =>
    /\ loadbib.exc # "" => (/\ loadbib.exc = "Unexpected end-of-file"
                            /\ loadbib.data # C24Input)
    /\ loadbib.data = C24Input =>
         /\ loadbib.state = 0
         /\ loadbib.bracket = 0
         /\ Len(loadbib.output) = 1
         /\ loadbib.output[1].tag = <<"@", "B", "O", "O", "K">>
         /\ loadbib.output[1].name = <<"b", "1">>
         /\ \A item \in {<<"a", "u", "t", "h", "o", "r">>,
                          <<"t", "i", "t", "l", "e">>,
                          <<"p", "u", "b", "l", "i", "s", "h", "e", "r">>,
                          <<"y", "e", "a", "r">>,
                          <<"a", "d", "d", "r", "e", "s", "s">>} :
              DictHas(loadbib.output[1].bib, item)

\* --------------------------------------------------- AuthorList: the claims

\* the escape levels after a text that begins outside every escape: a
\* delimiter inside a delimiter of another kind is an ordinary character
RECURSIVE EscapeLevels(_)
EscapeLevels(text) ==
  IF text = <<>> THEN [bracket |-> 0, quote |-> FALSE, squote |-> FALSE]
  ELSE LET before == EscapeLevels(SubSeq(text, 1, Len(text) - 1))
           char == text[Len(text)]
       IN IF char = "{" /\ ~before.quote /\ ~before.squote
          THEN [before EXCEPT !.bracket = @ + 1]
          ELSE IF char = "}" /\ ~before.quote /\ ~before.squote
          THEN [before EXCEPT !.bracket = @ - 1]
          ELSE IF char = "\"" /\ before.bracket = 0 /\ ~before.squote
          THEN [before EXCEPT !.quote = ~@]
          ELSE IF char = "'" /\ before.bracket = 0 /\ ~before.quote
          THEN [before EXCEPT !.squote = ~@]
          ELSE before

\* the character at place k of the text is inside {} or inside quotes
Escaped(text, k) ==
  LET levels == EscapeLevels(SubSeq(text, 1, k - 1))
  IN levels.bracket > 0 \/ levels.quote \/ levels.squote

\* the words of a list of authors, the word "and" between two authors
RECURSIVE AuthorWords(_)
AuthorWords(authors) ==
  IF Len(authors) = 0 THEN <<>>
  ELSE IF Len(authors) = 1 THEN authors[1]
  ELSE authors[1] \o <<AndWord>> \o AuthorWords(Tail(authors))

\* the words with one space between them
RECURSIVE JoinWords(_)
JoinWords(words) ==
  IF words = <<>> THEN <<>>
  ELSE IF Len(words) = 1 THEN words[1]
  ELSE words[1] \o <<" ">> \o JoinWords(Tail(words))

\* the text neither begins nor ends with whitespace and has no two
\* whitespace characters in a row
Tidy(text) ==
  /\ text # <<>>
  /\ ~isspace(text[1])
  /\ ~isspace(text[Len(text)])
  /\ \A k \in 1 .. Len(text) - 1 : ~(isspace(text[k]) /\ isspace(text[k + 1]))

Parsed == authorlist.returned /\ authorlist.exc = ""

C26_ThreeAndTwo ==
  authorlist.raw = C26Input /\ authorlist.returned =>
    /\ Len(authorlist.authors) = 2
    /\ Len(authorlist.authors[1]) = 3
    /\ Len(authorlist.authors[2]) = 2

\* C26 (amended): the text C26Input is parsed without an error and gives two
\* authors of three name parts each: (Albert, von, Fuddyduddy) and
\* (Plot, de, Vice).
C26_ThreeAndThree ==
  authorlist.raw = C26Input =>
    /\ authorlist.exc = ""
    /\ authorlist.returned =>
         authorlist.authors =
           <<<<<<"A", "l", "b", "e", "r", "t">>,
               <<"v", "o", "n">>,
               <<"F", "u", "d", "d", "y", "d", "u", "d", "d", "y">>>>,
             <<<<"P", "l", "o", "t">>, <<"d", "e">>,
               <<"V", "i", "c", "e">>>>>>

\* C26 (witness): _str_parse has returned the authors of C26Input.
C26_Witness ==
  /\ Parsed
  /\ authorlist.raw = C26Input
  /\ Len(authorlist.authors) = 2

\* --------------------------------------------------- Entry.post: the claims

\* the conversion post applies to an item
Conversion(item) ==
  IF item = "author" THEN "AuthorList" ELSE IF item = "year" THEN "int" ELSE ""

\* the entry has the item and its conversion raises
CoercionFails(e, item) ==
  /\ item \in DOMAIN e.bib
  /\ Conversion(item) # ""
  /\ dtype_call(Conversion(item), e.bib[item]).exc # ""

MissingItems(e) == EntryClass[e.class].mandatory \ DOMAIN e.bib

UnknownItems(e) ==
  DOMAIN e.bib \ (EntryClass[e.class].mandatory \cup EntryClass[e.class].optional)

\* C27: a call of post writes a line for every missing mandatory item and,
\* when strict, for every unknown item, whether it raises or not; with
\* fatal=False it does not raise, the entry keeps its items, and an item
\* that has no conversion or whose conversion fails keeps its value; with
\* fatal=True it raises when a mandatory item is missing or a conversion
\* fails.
C27_PostReportsThenFails ==
  [][thisentry'.posts = 1 =>
       /\ \A item \in MissingItems(thisentry) :
            Line("Missing mandatory item", item, 0) \in thisentry'.stderr
       /\ thisentry'.strict =>
            \A item \in UnknownItems(thisentry) :
              Line("Unrecognized item", item, 0) \in thisentry'.stderr
       /\ ~thisentry'.fatal =>
            /\ thisentry'.exc = ""
            /\ DOMAIN thisentry'.bib = DOMAIN thisentry.bib
            /\ \A item \in DOMAIN thisentry.bib :
                 Conversion(item) = "" \/ CoercionFails(thisentry, item)
                   => thisentry'.bib[item] = thisentry.bib[item]
       /\ thisentry'.fatal /\ (\/ MissingItems(thisentry) # {}
                               \/ \E item \in DOMAIN thisentry.bib :
                                    CoercionFails(thisentry, item))
            => thisentry'.exc # ""]_vars

\* C27 (witness): post(fatal=False) has returned for an entry with a
\* missing mandatory item and a year that is not a number; both are
\* reported and the year is the string it was.
C27_Witness ==
  /\ thisentry.posts = 1
  /\ ~thisentry.fatal
  /\ thisentry.exc = ""
  /\ Cardinality(MissingItems(thisentry)) >= 2
  /\ Line("Unsupported format", "year", 0) \in thisentry.stderr
  /\ "year" \in DOMAIN thisentry.bib
  /\ thisentry.bib["year"] = StrValue(<<"x">>)

\* ------------------------------------------- the claims on the graph, again

\* the place of a collection in a schedule, 0 when it is not scheduled
PlaceIn(schedule, n) ==
  IF n \in Range(schedule)
  THEN CHOOSE i \in 1 .. Len(schedule) : schedule[i] = n
  ELSE 0

\* C28: in the depth-first schedule of a graph without a cycle every
\* scheduled collection comes after all the collections reachable from it,
\* and the start collection, when it is scheduled, is the last.
C28_DescendantsFirst ==
  (last.op = "collections" /\ last.opts[1] /\ ~Cyclic(children, last.self))
  => /\ last.exc = ""
     /\ \A i \in 1 .. Len(last.schedule) :
          \A k \in Descendants(children, last.schedule[i]) :
            /\ PlaceIn(last.schedule, k) > 0
            /\ PlaceIn(last.schedule, k) < i
     /\ last.opts[2] => /\ last.schedule # <<>>
                        /\ last.schedule[Len(last.schedule)] = last.self

\* C28 (witness): a depth-first schedule with the start collection, over a
\* graph in which a collection has two parents and a collection has a
\* grandchild.
C28_Witness ==
  /\ last.op = "collections"
  /\ last.opts[1]
  /\ last.opts[2]
  /\ last.exc = ""
  /\ ~Cyclic(children, last.self)
  /\ Len(last.schedule) >= 4
  /\ \E k \in Descendants(children, last.self) :
       Cardinality({p \in Reach(children, last.self) : k \in Range(children[p])}) = 2
  /\ \E c \in Range(children[last.self]) : Descendants(children, c) # {}

\* C29: a merge(mc, name) that returns has moved the collections themselves:
\* every collection that was reachable from mc is, as the same object,
\* reachable from the receiver's master and has that master.
C29_MergeByIdentity ==
  [][(last'.op = "merge" /\ last'.exc = "") =>
       LET A == master[last'.self]
       IN \A k \in Descendants(children, last'.arg) :
            /\ k \in Reach(children', A)
            /\ master'[k] = A]_vars

C31_RemoveChildOrphan ==
  [][(last'.op = "removechild" /\ last'.exc = "") =>
       LET self == last'.self
           cur == ChildrenGet(Graph, children[self], name[last'.arg])
           M == master[cur]
       IN /\ cur \notin Range(children'[self])
          /\ \A n \in Node \ {self} : children'[n] = children[n]
          /\ M # None =>
               /\ cur \in Reach(children', M) => master'[cur] = M
               /\ cur \notin Reach(children', M) => master'[cur] = None]_vars

\* ----------------------------------------------- loadbib: the claims, again

\* C32: while the value of a macro is read, the text gathered for it is
\* never cut: a "#" after a part leaves it as it is and turns to the next
\* part, every character of a part leaves it or adds to it, and the text
\* stored for the macro begins with it; the value "x" # a # {y}, a being
\* the macro b, is stored as xby.
C32_Concatenation ==
  [][(/\ loadbib.exc = ""
      /\ loadbib'.exc = ""
      /\ loadbib'.data # loadbib.data
      /\ loadbib.state \in {8, 9, 10}
      /\ loadbib.activetype = AtString)
     => /\ Reads("#") /\ loadbib.state = 10
             => loadbib'.state = 8 /\ loadbib'.activedata = loadbib.activedata
        /\ IF loadbib'.state \in {8, 9, 10}
           THEN IsPrefix(loadbib.activedata, loadbib'.activedata)
           ELSE /\ DictHas(loadbib'.string, loadbib.activeitem)
                /\ IsPrefix(loadbib.activedata,
                            DictGet(loadbib'.string, loadbib.activeitem))
        /\ loadbib'.data = C32Input
             => ItemStored(loadbib', AtString, <<"c">>, <<"x", "b", "y">>)]_vars

\* the character loadbib has just read
CharRead == loadbib'.data[Len(loadbib'.data)]

\* loadbib has just read a character with the state conditions
ReadsInState(state) ==
  /\ loadbib.exc = ""
  /\ ~loadbib.returned
  /\ loadbib'.data # loadbib.data
  /\ ~loadbib.comment
  /\ loadbib.state = state

\* C33: while loadbib looks for an item name, a character that is neither
\* whitespace nor "}" nor a letter raises an error.
C33_ItemNameSought ==
  [][(/\ ReadsInState(5)
      /\ ~isspace(CharRead)
      /\ CharRead # "}"
      /\ ~isalpha(CharRead))
     => loadbib'.exc # ""]_vars

\* the type of the record being read is none that loadbib knows
Unrecognized(f) ==
  /\ f.state >= 3
  /\ f.activetype \notin entrytypes \cup {AtString, AtComment}

\* C34: the error of an unrecognized entry type is raised by the closing
\* brace of the record and by no character before it: the comma that ends
\* an item of such a record raises nothing.
C34_UnrecognizedAtEnd ==
  [][(/\ loadbib.exc = ""
      /\ loadbib'.data # loadbib.data
      /\ Unrecognized(loadbib))
     => /\ loadbib'.exc = "Unrecognized entry type"
             => CharRead = "}" /\ loadbib'.endofentry
        /\ (loadbib.state \in {9, 10} /\ ~loadbib.quote /\ loadbib.bracket = 1
            /\ CharRead = ",")
             => loadbib'.exc = ""]_vars

\* C35: a "%" read outside braces and quotes and every character after it
\* up to the end of the line change nothing but the comment flag: the
\* state, the record and the item in progress, the macros and the result
\* stay as they are, and the newline ends the comment; a "%" read inside
\* braces or quotes starts no comment.
C35_LineComment ==
  [][(/\ loadbib.exc = ""
      /\ ~loadbib.returned
      /\ loadbib'.data # loadbib.data)
     => /\ (loadbib.comment
            \/ (CharRead = "%" /\ ~loadbib.quote /\ loadbib.bracket = 0))
             => /\ loadbib' = [loadbib EXCEPT !.data = loadbib'.data,
                                              !.comment = loadbib'.comment]
                /\ loadbib'.comment = (CharRead # "\n")
        /\ (~loadbib.comment /\ CharRead = "%"
            /\ (loadbib.quote \/ loadbib.bracket # 0))
             => ~loadbib'.comment]_vars

\* C35 (witness): the text C35Input has been read: two line comments have
\* been passed over, one of them in the middle of the type of a record, and
\* the "%" in braces and the "%" in quotes are the values of macros.
C35_Witness ==
  /\ loadbib.data = C35Input
  /\ loadbib.exc = ""
  /\ loadbib.state = 0
  /\ ItemStored(loadbib, AtString, <<"a">>, <<"b">>)
  /\ ItemStored(loadbib, AtString, <<"d">>, <<"%">>)
  /\ ItemStored(loadbib, AtString, <<"e">>, <<"%">>)

\* C36: the tests of the scanner on its own locals never fail: while it
\* reads an item name, looks for the data of an item or is past the data of
\* an item, the brace depth is 1 and no quote is open; while it is Idle,
\* the type, the name, the item name and the entry in progress are empty;
\* the brace depth is never negative.
C36_InternalChecks ==
  /\ loadbib.exc # "internal error"
  /\ loadbib.bracket >= 0
  /\ (loadbib.exc = "" /\ loadbib.state \in {6, 8, 10})
       => loadbib.bracket = 1 /\ ~loadbib.quote
  /\ (loadbib.exc = "" /\ loadbib.state = 0)
       => /\ loadbib.activetype = <<>>
          /\ loadbib.activename = <<>>
          /\ loadbib.activeitem = <<>>
          /\ loadbib.bib = {}

\* C37: after any sequence of add, addchild and merge calls, no two
\* different collections that can be reached from one master have the same
\* name, so that getchild finds at most one collection of a name.
C37_UniqueNames ==
  \A m \in MasterIds : \A c, d \in Reach(children, m) :
    name[c] = name[d] => c = d

\* C38: the list a sort of a collection other than a master returns holds
\* every entry within reach of the collection exactly once, also when
\* several collections within reach hold an entry and other entries have the
\* same year.
C38_SortOnce ==
  (last.op = "sort" /\ last.exc = "" /\ kind[last.self] # "Master") =>
    /\ Range(last.schedule) = Listed(last.self)
    /\ \A i, j \in 1 .. Len(last.schedule) :
         last.schedule[i] = last.schedule[j] => i = j

\* ------------------------------------------ AuthorList: the claims, again
\* the first authors of a and b have first names and the same last name,
\* and the initial of a's first author is greater than that of b's
FirstInitialGreater(a, b) ==
  /\ Len(a) >= 1 /\ Len(b) >= 1
  /\ Len(a[1]) >= 2 /\ Len(b[1]) >= 2
  /\ fingerprint(a[1][Len(a[1])]) = fingerprint(b[1][Len(b[1])])
  /\ initial(a[1][1]) # "" /\ initial(b[1][1]) # ""
  /\ InitialLess(initial(b[1][1]), initial(a[1][1]))

\* C39: a < b and b < a never both hold; a < b holds exactly when b > a
\* does; a == b excludes a < b and b < a; and a < b does not hold when the
\* first authors have the same last name and a's initial is the greater.
C39_Ordering ==
  /\ ~(compared.lt.ab = "True" /\ compared.lt.ba = "True")
  /\ (compared.lt.ab # "" /\ compared.gt.ba # "")
       => compared.lt.ab = compared.gt.ba
  /\ (compared.lt.ba # "" /\ compared.gt.ab # "")
       => compared.lt.ba = compared.gt.ab
  /\ compared.eq.ab = "True"
       => compared.lt.ab # "True" /\ compared.lt.ba # "True"
  /\ FirstInitialGreater(compared.a, compared.b) => compared.lt.ab # "True"

\* ----------------------------------------------- loadbib: delimited values
\* C40: while a value in braces or in quotes is read, the data of the item
\* is unchanged, and the brace or quote that closes the value appends the
\* text between the delimiters as it is, also when it is the name of a
\* macro; within an item, the value of a macro is appended only for a token
\* outside braces and quotes, at the space that ends it.
C40_DelimitedLiteral ==
  [][(ReadsInState(9) /\ loadbib'.exc = "")
     => /\ (loadbib.quote \/ loadbib.bracket > 1)
             => loadbib'.activedata =
                  IF loadbib'.state = 10
                  THEN loadbib.activedata \o loadbib.word
                  ELSE loadbib.activedata
        /\ (/\ ~loadbib'.endofitem
            /\ loadbib'.state \in {9, 10}
            /\ loadbib'.activedata
                 \notin {loadbib.activedata, loadbib.activedata \o loadbib.word})
             => /\ ~loadbib.quote
                /\ loadbib.bracket <= 1
                /\ isspace(CharRead)
                /\ DictHas(loadbib.string, loadbib.word)]_vars

\* C40 (witness): the text C40Input has been read: with the macro a defined
\* as b, the value {a} and the value "a" are stored as a, the bare a as b.
C40_Witness ==
  /\ loadbib.data = C40Input
  /\ loadbib.exc = ""
  /\ loadbib.state = 0
  /\ ItemStored(loadbib, AtString, <<"a">>, <<"b">>)
  /\ ItemStored(loadbib, AtString, <<"c">>, <<"a">>)
  /\ ItemStored(loadbib, AtString, <<"d">>, <<"a">>)
  /\ ItemStored(loadbib, AtString, <<"e">>, <<"b">>)

====
